---- MODULE Spec2Model ----
(***************************************************************************)
(* A model of the API gateway's data plane and control plane:              *)
(*   - server.js            reloadConfig, the published router reference   *)
(*   - lib/configLoader     loadConfigFile, loadConfig                     *)
(*   - lib/routeBuilder     buildRouter, attachPlugins, the proxy pipeline *)
(*   - lib/loadBalancer     selectUpstream, parseUpstreams                 *)
(*   - lib/circuitBreaker   the breaker registry                           *)
(*   - lib/upstreamHealth   the health records                             *)
(*   - lib/retry            the retry engine                               *)
(*   - middleware/requestTimeout  the per-request deadline                 *)
(* Node runs every handler to its next await / callback boundary without   *)
(* interleaving, so one action is one such run-to-completion step.         *)
(***************************************************************************)
EXTENDS Integers, Sequences, FiniteSets, TLC

\* ---------------------------------------------------------------- bounds
MaxArrivals == 2    \* client requests of a run of Spec
MaxReloads == 2     \* calls of reloadConfig in a run (the initial one included)
MaxProbes == 2      \* health probes in flight per upstream
MaxThreshold == 3   \* largest health threshold the environment configures
MaxStreak == 4      \* longest run of equal probe results that is followed
MaxN == 3           \* largest maxRetries option given to retryManager.execute
MaxFires == 2       \* breaker calls counted in one rolling window, and calls in flight
RouteTimeout == 2   \* the route's timeout (timeout and proxyTimeout of a forward), in clock ticks
RequestDeadline == 3  \* the request timeout of server.js (REQUEST_TIMEOUT_MS), in clock ticks

\* ------------------------------------------------------ program constants
DefaultMaxRetries == 3      \* config.retry.maxRetries
UnhealthyThreshold == 3     \* config.healthCheck.unhealthyThreshold
HealthyThreshold == 1       \* config.healthCheck.healthyThreshold
ErrorThresholdPercentage == 50  \* config.circuitBreaker.errorThresholdPercentage
InitialDelay == 100         \* config.retry.initialDelay
MaxDelay == 10000           \* config.retry.maxDelay
BackoffFactor == 2          \* config.retry.factor

RetryableCodes == {"ECONNRESET", "ETIMEDOUT", "ECONNREFUSED", "ENOTFOUND"}
NetworkErrors == {"ECONNRESET", "ETIMEDOUT", "ECONNREFUSED", "ENOTFOUND", "ECONNABORTED"}

Upstreams == {"u1", "u2"}
NoUpstream == "none"
Undefined == -1             \* an absent numeric field of the YAML document

Range(s) == {s[i] : i \in 1..Len(s)}

RECURSIVE Filter(_, _)
Filter(s, keep) ==
    IF Len(s) = 0 THEN <<>>
    ELSE IF Head(s) \in keep THEN <<Head(s)>> \o Filter(Tail(s), keep)
    ELSE Filter(Tail(s), keep)

\* ------------------------------------------------------------ documents
\* What gateway.yaml can hold when reloadConfig reads it.  A route entry is
\* a YAML mapping, or null (kind "null"), or a mapping without a string path.
RouteEntry(path, upstream, maxRetries, plugins) ==
    [kind |-> "route", path |-> path, upstream |-> upstream, retry |-> TRUE,
     maxRetries |-> maxRetries, strategy |-> "health_aware", plugins |-> plugins]

NullEntry == [RouteEntry("", [t |-> "other", v |-> <<>>], Undefined, <<>>) EXCEPT !.kind = "null"]

Str(u) == [t |-> "string", v |-> <<u>>]
Arr(us) == [t |-> "array", v |-> us]

AuthPlugin == [name |-> "central-auth", enabled |-> TRUE, loads |-> TRUE]

\* An enabled plugin that loadPlugin cannot load (no such file, or a factory
\* that throws, as central-auth's does without authServiceUrl).
BrokenPlugin == [name |-> "central-auth", enabled |-> TRUE, loads |-> FALSE]

Documents ==
    << [load |-> "ok", routes |-> << RouteEntry("/v1", Str("u1"), 0, <<>>) >>],
       [load |-> "ok", routes |-> << RouteEntry("/v1", Str("u2"), 1, <<AuthPlugin>>) >>],
       [load |-> "ok", routes |-> << RouteEntry("/v1", Arr(<<"u1", "u2">>), 2, <<>>) >>],
       [load |-> "ok", routes |-> << RouteEntry("/v1", Str("u2"), Undefined, <<>>), NullEntry >>],
       [load |-> "ENOENT", routes |-> <<>>],
       [load |-> "EMPTY", routes |-> <<>>],
       [load |-> "YAML", routes |-> <<>>],
       [load |-> "ROUTES_NOT_ARRAY", routes |-> <<>>],
       [load |-> "ok", routes |-> <<>>],
       [load |-> "ok", routes |-> << RouteEntry("", Str("u1"), Undefined, <<>>),
                                     RouteEntry("/v1", [t |-> "other", v |-> <<>>], Undefined, <<>>) >>],
       [load |-> "ok", routes |-> << RouteEntry("/v1", Str("u1"), 1, <<BrokenPlugin>>) >>] >>

Paths == {"/v1"}

VARIABLES
    dynamicRouter,  \* server.js: the published router, 0 = null, else an index of tables
    tables,         \* every router buildRouter returned, in order; immutable once built
    routeState,     \* routeBuilder: Map path -> cursor object (0 = no entry)
    cursors,        \* the heap of cursor objects { index }, with the table that made them
    intervals,      \* upstreamHealth.intervals: the upstreams with a probe timer
    req,            \* the request tasks
    arrivals,       \* client requests so far
    arrivalCap,     \* client requests the environment sends in this run
    reloads,        \* reloadConfig calls so far
    lastReload,     \* how the last reloadConfig call ended
    served500,      \* per upstream: consecutive proxied requests answered 5xx
    breakers,       \* circuitBreakerManager.breakers
    exec,           \* circuitBreakerManager.execute: the last call and how it went
    healthStatus,   \* upstreamHealthChecker.healthStatus
    thresholds,     \* upstreamHealthChecker.unhealthyThreshold / healthyThreshold
    probes,         \* per upstream: health probes issued and not yet answered
    streak,         \* per upstream: the run of equal probe results its record has seen
    rx,             \* one call of retryManager.execute
    robin,          \* one cursor object and the selections made with it
    watch,          \* lib/watcher: reloadTimer, and the file-change events seen
    down,           \* lib/shutdown: isShuttingDown, shutdownHandlers, where shutdown() is
    redis,          \* middleware/rateLimiter: redisClient's connection
    auth,           \* plugins/central-auth: one request passing the middleware
    limiter,        \* the global rate limiter: its counters, and what it let pass
    probe,          \* the last answers of GET /readyz and GET /startupz
    stack,          \* server.js: one request in the middleware stack, and the metrics counter
    flight          \* upstreamHealth: the probes in flight by issue number, and the clock they run on

vars == <<dynamicRouter, tables, routeState, cursors, intervals, req, arrivals,
          arrivalCap, reloads, lastReload, served500, breakers, exec,
          healthStatus, thresholds, probes, streak, rx, robin, watch, down, redis, auth, limiter, probe, stack, flight>>

\* The state of the parts beside the router, its pipeline, the breakers,
\* the health checker and the retry engine.
fringe == <<robin, watch, down, redis, auth, limiter, probe, stack, flight>>

\* What the proxy pipeline and reloadConfig never write.
apart_core == <<exec, healthStatus, thresholds, probes, streak, rx>>
apart == <<apart_core, fringe>>

\* The router, its cursors, the requests and the counters of a run.
gateway_core == <<dynamicRouter, tables, routeState, cursors, req, arrivals, arrivalCap,
                  reloads, lastReload, served500>>


\* ---------------------------------------------------- lib/loadBalancer
\* parseUpstreams: a string becomes [string]; an array keeps its string
\* entries; anything else yields [].
parseUpstreams(upstreamConfig) ==
    IF upstreamConfig.t = "string" THEN upstreamConfig.v
    ELSE IF upstreamConfig.t = "array" THEN Filter(upstreamConfig.v, Upstreams)
    ELSE <<>>

\* upstreamHealthChecker.isHealthy: optimistic when there is no record.
NoRecord == [present |-> FALSE, healthy |-> TRUE, consecutiveFailures |-> 0,
             consecutiveSuccesses |-> 0]

isHealthy(upstream) ==
    IF healthStatus[upstream].present THEN healthStatus[upstream].healthy ELSE TRUE

\* A selectUpstream that runs its round robin over every upstream, whatever
\* the health records say.
selectUpstream_IgnoresHealth(upstreams, strategy, index, rnd) ==
    IF Len(upstreams) = 0 THEN [selected |-> NoUpstream, index |-> index]
    ELSE LET n == Len(upstreams)
         IN  [selected |-> upstreams[(index % n) + 1], index |-> (index + 1) % n]

\* A selectUpstream whose round robin leaves the cursor where it is.
selectUpstream_NoAdvance(upstreams, strategy, index, rnd) ==
    IF Len(upstreams) = 0 THEN [selected |-> NoUpstream, index |-> index]
    ELSE [selected |-> upstreams[(index % Len(upstreams)) + 1], index |-> index]

\* selectUpstream(upstreams, strategy, state): the chosen upstream and the
\* value state.index is left with.  rnd stands for Math.random().
selectUpstream(upstreams, strategy, index, rnd) ==
    IF Len(upstreams) = 0 THEN [selected |-> NoUpstream, index |-> index]
    ELSE
      LET healthy == Filter(upstreams, {u \in Upstreams : isHealthy(u)})
          candidates == IF strategy = "health_aware" /\ Len(healthy) > 0
                        THEN healthy ELSE upstreams
          n == Len(candidates)
      IN  IF strategy \in {"round_robin", "health_aware"}
          THEN [selected |-> candidates[(index % n) + 1], index |-> (index + 1) % n]
          ELSE IF strategy = "random"
          THEN [selected |-> candidates[(rnd % n) + 1], index |-> index]
          ELSE [selected |-> candidates[1], index |-> index]

\* -------------------------------------------------- lib/circuitBreaker
NoBreaker == [present |-> FALSE, state |-> "closed", pendingClose |-> FALSE,
              fires |-> 0, failures |-> 0, inflight |-> 0]

\* An isOpen that never reports an open breaker.
isOpen_Never(upstream) == FALSE

\* An isOpen that takes half-open for open.
isOpen_HalfOpen(upstream) ==
    breakers[upstream].present /\ breakers[upstream].state = "halfOpen"

\* isOpen: breaker?.opened || false
isOpen(upstream) ==
    breakers[upstream].present /\ breakers[upstream].state = "open"

\* ---------------------------------------------------- lib/routeBuilder
isValidRoute(route) == route.kind = "route" /\ route.path # ""

\* attachPlugins: the middleware of the enabled plugins that load, in order.
RECURSIVE attachPlugins(_)
attachPlugins(plugins) ==
    IF Len(plugins) = 0 THEN <<>>
    ELSE LET p == Head(plugins) IN
         IF p.enabled /\ p.loads
         THEN <<p.name>> \o attachPlugins(Tail(plugins))
         ELSE attachPlugins(Tail(plugins))

\* The plugins the route's configuration enables, in order (route.plugins
\* stays in the closure of the route's layers).
RECURSIVE enabledPlugins(_)
enabledPlugins(plugins) ==
    IF Len(plugins) = 0 THEN <<>>
    ELSE IF Head(plugins).enabled
         THEN <<Head(plugins).name>> \o enabledPlugins(Tail(plugins))
         ELSE enabledPlugins(Tail(plugins))

\* createEnterpriseProxy's per-route constants.
EffectiveMaxRetries(route) ==
    IF route.maxRetries = Undefined \/ route.maxRetries = 0
    THEN DefaultMaxRetries ELSE route.maxRetries

createEnterpriseProxy(route, upstreams) ==
    [path |-> route.path, upstreams |-> upstreams,
     plugins |-> attachPlugins(route.plugins),
     enabledPlugins |-> enabledPlugins(route.plugins),
     strategy |-> route.strategy, enableRetry |-> route.retry,
     configured |-> route.maxRetries, maxRetries |-> EffectiveMaxRetries(route)]

\* buildRouter's loop from route i on.  st carries what the loop has done so
\* far: the cursor map and heap, the probe timers started, the layers of the
\* router being built, and whether an exception escaped.
RECURSIVE BuildRoutes(_, _, _, _)
BuildRoutes(routes, i, id, st) ==
    IF i > Len(routes) \/ st.threw THEN st
    ELSE LET route == routes[i] IN
      IF route.kind = "null" THEN [st EXCEPT !.threw = TRUE]
      ELSE IF ~isValidRoute(route) THEN BuildRoutes(routes, i + 1, id, st)
      ELSE LET upstreams == parseUpstreams(route.upstream) IN
        IF Len(upstreams) = 0 THEN BuildRoutes(routes, i + 1, id, st)
        ELSE BuildRoutes(routes, i + 1, id,
               [rs |-> [st.rs EXCEPT ![route.path] = Len(st.cur) + 1],
                cur |-> Append(st.cur, [owner |-> id, index |-> 0]),
                mon |-> st.mon \cup Range(upstreams),
                layers |-> Append(st.layers, createEnterpriseProxy(route, upstreams)),
                threw |-> FALSE])

\* buildRouter(routes): routeState.clear(), then the loop.
buildRouter(routes, id) ==
    BuildRoutes(routes, 1, id,
                [rs |-> [p \in Paths |-> 0], cur |-> cursors, mon |-> intervals,
                 layers |-> <<>>, threw |-> FALSE])

\* startMonitoring's immediate checkHealth for the upstreams us: one more
\* probe in flight each (at most MaxProbes are followed per upstream).
IssueProbes(pr, us) ==
    [u \in Upstreams |-> IF u \in us /\ pr[u] < MaxProbes THEN pr[u] + 1 ELSE pr[u]]

\* ---------------------------------------------------- lib/configLoader
\* loadConfigFile: null unless the file reads, parses to an object and has a
\* routes array.
loadConfigFile(doc) == IF doc.load = "ok" THEN "config" ELSE "null"

\* --------------------------------------------------------- server.js
\* A publication without the `if (newRouter)` test.
Publish_Unguarded(newRouter) == newRouter

\* reloadConfig's publication: swap only when loadConfig returned a router.
Publish(newRouter) == IF newRouter # 0 THEN newRouter ELSE dynamicRouter

\* reloadConfig -> loadConfig -> loadConfigFile / buildRouter: what the call
\* does to the router, the cursors and the health checker.
reloadConfig(d) ==
    /\ reloads < MaxReloads
    /\ reloads' = reloads + 1
    /\ LET doc == Documents[d] IN
       IF loadConfigFile(doc) = "null"
       THEN /\ dynamicRouter' = Publish(0)
            /\ lastReload' = "failed"
            /\ UNCHANGED <<tables, routeState, cursors, intervals>>
       ELSE LET id == Len(tables) + 1
                b == buildRouter(doc.routes, id)
            IN  /\ routeState' = b.rs
                /\ cursors' = b.cur
                /\ intervals' = b.mon
                /\ IF b.threw
                   THEN /\ dynamicRouter' = Publish(0)
                        /\ tables' = tables
                        /\ lastReload' = "failed"
                   ELSE /\ dynamicRouter' = Publish(id)
                        /\ tables' = Append(tables, b.layers)
                        /\ lastReload' = "published"
    /\ probes' = IssueProbes(probes, intervals' \ intervals)
    /\ UNCHANGED <<req, arrivals, arrivalCap, served500, breakers, exec,
                   healthStatus, thresholds, streak, rx>>

\* reloadConfig called at start-up or on its own.
ReloadConfig(d) ==
    /\ reloadConfig(d)
    /\ UNCHANGED fringe


\* ------------------------------------- lib/circuitBreaker: the signals
\* What the 'success' and 'failure' events do to an opossum breaker: they
\* bump the rolling counters (the success count is read nowhere and is left
\* out); a success while half-open closes the breaker.  The threshold test
\* that opens a breaker runs only inside fire().
EmitSuccess(b) ==
    [b EXCEPT !.state = IF b.state = "halfOpen" THEN "closed" ELSE @,
              !.pendingClose = IF b.state = "halfOpen" THEN FALSE ELSE @]

EmitFailure(b) == [b EXCEPT !.failures = @ + 1]

\* recordSuccess(upstreamUrl)
recordSuccess(upstream) ==
    IF breakers[upstream].present
    THEN [breakers EXCEPT ![upstream] = EmitSuccess(@)]
    ELSE breakers

\* A recordFailure that counts whatever it is handed.
recordFailure_Always(upstream, error) ==
    IF ~breakers[upstream].present THEN breakers
    ELSE [breakers EXCEPT ![upstream] = EmitFailure(@)]

\* recordFailure(upstreamUrl, error): error = { code } or { status }
recordFailure(upstream, error) ==
    IF ~breakers[upstream].present THEN breakers
    ELSE LET isNetworkError == error.code \in NetworkErrors
             isServerError == error.status >= 500
         IN  IF isNetworkError \/ isServerError
             THEN [breakers EXCEPT ![upstream] = EmitFailure(@)]
             ELSE breakers

\* -------------------------------------------- the proxy pipeline (H)
IdleReq ==
    [pc |-> "idle", path |-> "", table |-> 0, route |-> 0, plug |-> 0, state |-> 0,
     list |-> <<>>, attempt |-> 0, selected |-> NoUpstream, headersSent |-> FALSE,
     status |-> 0, forwards |-> 0, clean |-> TRUE, ran |-> 0, epoch |-> 0,
     spent |-> 0, waited |-> 0, starts |-> 0]

\* Spec follows one request task at a time; its slot is reused by the next
\* client request once the task has ended.
Slots == {1}

\* A response written whether or not one has been started.
Respond_Unguarded(rq, s) ==
    [rq EXCEPT !.headersSent = TRUE, !.status = s, !.starts = @ + 1]

\* res.status(s).json(...) behind an `if (!res.headersSent)` guard; starts
\* counts the status lines written for the request.
Respond(rq, s) ==
    IF rq.headersSent THEN rq
    ELSE [rq EXCEPT !.headersSent = TRUE, !.status = s, !.starts = @ + 1]

\* The task ends: only what the client saw and what the task did is kept.
End(rq) ==
    [rq EXCEPT !.pc = "done", !.plug = 0, !.state = 0, !.list = <<>>,
               !.attempt = 0, !.selected = NoUpstream, !.waited = 0]

Finish(rq, s) == End(Respond(rq, s))

RouteOf(rq) == tables[rq.table][rq.route]

\* The first layer of router t mounted on path p, 0 when none matches.
MatchRoute(t, p) ==
    LET hits == {k \in 1..Len(tables[t]) : tables[t][k].path = p}
    IN  IF hits = {} THEN 0 ELSE CHOOSE k \in hits : \A j \in hits : k <= j

\* A retry that re-read the published router would work on this list instead.
RetryList_Published(rq) ==
    LET k == MatchRoute(dynamicRouter, rq.path)
    IN  IF k = 0 THEN <<>> ELSE tables[dynamicRouter][k].upstreams

\* The upstream list a retry attempt works on: tryProxy's own upstreamList.
RetryList(rq) == rq.list

\* The router whose plugin layers the request walks: the one it entered.
ChainTable(rq) == rq.table

\* tryProxy(upstreamList, currentAttempt) for request rq, on cursor heap cur
\* and cursor map rs.  env.rnd is Math.random(); env.prepOk tells whether the
\* proxy middleware got as far as issuing the upstream request (otherwise it
\* calls back with an error).
RECURSIVE tryProxy(_, _, _, _, _, _)
tryProxy(rq, cur, rs, upstreamList, currentAttempt, env) ==
    LET route == RouteOf(rq)
        availableUpstreams == Filter(upstreamList, {u \in Upstreams : ~isOpen(u)})
        pool == IF Len(availableUpstreams) > 0 THEN availableUpstreams ELSE upstreamList
        sel == selectUpstream(pool, route.strategy, cur[rq.state].index, env.rnd)
        selectedUpstream == sel.selected
    IN
    IF selectedUpstream = NoUpstream
    THEN [rq |-> Finish(rq, 503), cur |-> cur, rs |-> rs]
    ELSE
      LET cur1 == [cur EXCEPT ![rq.state].index = sel.index]
          rs1 == [rs EXCEPT ![route.path] = rq.state]
          at == [rq EXCEPT !.list = upstreamList, !.attempt = currentAttempt,
                           !.selected = selectedUpstream, !.waited = 0]
      IN
      IF isOpen(selectedUpstream)
      THEN IF currentAttempt < route.maxRetries /\ Len(upstreamList) > 1
           THEN tryProxy(rq, cur1, rs1,
                         Filter(upstreamList, Upstreams \ {selectedUpstream}),
                         currentAttempt + 1, env)
           ELSE [rq |-> Finish(at, 503), cur |-> cur1, rs |-> rs1]
      ELSE IF env.prepOk
      THEN [rq |-> [at EXCEPT !.pc = "forward", !.forwards = @ + 1,
                              !.epoch = dynamicRouter],
            cur |-> cur1, rs |-> rs1]
      ELSE \* proxy(req, res, (err) => ...) called back with an error
        [rq |-> IF at.headersSent THEN End(at)
                ELSE IF route.enableRetry /\ currentAttempt < route.maxRetries
                THEN [at EXCEPT !.pc = "backoff", !.clean = FALSE]
                ELSE Finish([at EXCEPT !.clean = FALSE], 502),
         cur |-> cur1, rs |-> rs1]

Envs(rq) ==
    [rnd : IF RouteOf(rq).strategy = "random" THEN 0..(Cardinality(Upstreams) - 1) ELSE {0},
     prepOk : BOOLEAN]

\* The proxy middleware of a route is entered: take the route's cursor from
\* routeState (or a fresh { index: 0 }) and run tryProxy(upstreams, 0).
EnterProxy(r, rq, env) ==
    LET have == routeState[RouteOf(rq).path]
        cur0 == IF have # 0 THEN cursors ELSE Append(cursors, [owner |-> 0, index |-> 0])
        rq0 == [rq EXCEPT !.state = IF have # 0 THEN have ELSE Len(cur0), !.pc = "proxy"]
        out == tryProxy(rq0, cur0, routeState, RouteOf(rq).upstreams, 0, env)
    IN  /\ req' = [req EXCEPT ![r] = out.rq]
        /\ cursors' = out.cur
        /\ routeState' = out.rs

FreeSlot(r) ==
    /\ req[r].pc \in {"idle", "done"}
    /\ \A q \in Slots : q < r => req[q].pc \notin {"idle", "done"}

\* A client request reaches the dynamic-routing middleware of server.js.
Arrive(r, p) ==
    /\ arrivals < arrivalCap
    /\ FreeSlot(r)
    /\ arrivals' = arrivals + 1
    /\ IF dynamicRouter = 0
       THEN /\ req' = [req EXCEPT ![r] = Finish([IdleReq EXCEPT !.path = p], 503)]
            /\ UNCHANGED <<cursors, routeState>>
       ELSE LET k == MatchRoute(dynamicRouter, p)
                rq == [IdleReq EXCEPT !.path = p, !.table = dynamicRouter, !.route = k]
            IN  IF k = 0
                THEN /\ req' = [req EXCEPT ![r] = Finish(rq, 404)]
                     /\ UNCHANGED <<cursors, routeState>>
                ELSE IF Len(tables[dynamicRouter][k].plugins) > 0
                THEN /\ req' = [req EXCEPT ![r] = [rq EXCEPT !.pc = "plugin", !.plug = 1]]
                     /\ UNCHANGED <<cursors, routeState>>
                ELSE \E env \in Envs(rq) : EnterProxy(r, rq, env)
    /\ UNCHANGED <<dynamicRouter, tables, intervals, arrivalCap, reloads, lastReload,
                   served500, breakers, apart>>

\* A plugin middleware of the route settles: it calls next() or answers itself.
PluginDone(r, passes) ==
    /\ req[r].pc = "plugin"
    /\ LET rq == req[r]
           chain == tables[ChainTable(rq)][rq.route].plugins
           ran == [rq EXCEPT !.ran = ChainTable(rq)]
       IN  IF ~passes
           THEN /\ req' = [req EXCEPT ![r] = Finish(ran, 401)]
                /\ UNCHANGED <<cursors, routeState>>
           ELSE IF rq.plug < Len(chain)
           THEN /\ req' = [req EXCEPT ![r] = [ran EXCEPT !.plug = @ + 1]]
                /\ UNCHANGED <<cursors, routeState>>
           ELSE \E env \in Envs(rq) : EnterProxy(r, ran, env)
    /\ UNCHANGED <<dynamicRouter, tables, intervals, arrivals, arrivalCap, reloads,
                   lastReload, served500, breakers, apart>>

\* onProxyRes: the upstream answered with status s; the answer is piped on.
ForwardResponds(r, s) ==
    /\ req[r].pc = "forward"
    /\ LET u == req[r].selected IN
       /\ breakers' = IF s < 500 THEN recordSuccess(u)
                      ELSE recordFailure(u, [code |-> "", status |-> s])
       /\ served500' = [served500 EXCEPT ![u] = IF s < 500 THEN 0
                                                ELSE IF @ < 10 THEN @ + 1 ELSE @]
    /\ req' = [req EXCEPT ![r] = [Respond(@, s) EXCEPT !.pc = "streaming"]]
    /\ UNCHANGED <<dynamicRouter, tables, routeState, cursors, intervals, arrivals,
                   arrivalCap, reloads, lastReload, apart>>

\* The piped answer reaches its end.
StreamEnds(r) ==
    /\ req[r].pc = "streaming"
    /\ req' = [req EXCEPT ![r] = End(@)]
    /\ UNCHANGED <<dynamicRouter, tables, routeState, cursors, intervals, arrivals,
                   arrivalCap, reloads, lastReload, served500, breakers, apart>>

\* onError(err): what follows the failure record.  A retry waits out its
\* backoff first; the wait is the "backoff" position.
OnError(rq, code) ==
    LET route == RouteOf(rq)
        isRetryable == code \in RetryableCodes
        logged == [rq EXCEPT !.clean = @ /\ isRetryable]
    IN  IF route.enableRetry /\ isRetryable /\ rq.attempt < route.maxRetries
           /\ ~rq.headersSent
        THEN [logged EXCEPT !.pc = "backoff", !.waited = 0]
        ELSE Finish(logged, 502)

\* The forward (or the piping of its answer) fails with a transport error.
ForwardErrors(r, code) ==
    /\ req[r].pc \in {"forward", "streaming"}
    /\ breakers' = recordFailure(req[r].selected, [code |-> code, status |-> 0])
    /\ served500' = [served500 EXCEPT ![req[r].selected] = 0]
    /\ req' = [req EXCEPT ![r] = OnError(@, code)]
    /\ UNCHANGED <<dynamicRouter, tables, routeState, cursors, intervals, arrivals,
                   arrivalCap, reloads, lastReload, apart>>

\* The backoff timer of onError (or of the proxy callback) fires.
BackoffElapsed(r) ==
    /\ req[r].pc = "backoff"
    /\ \E env \in Envs(req[r]) :
         LET out == tryProxy(req[r], cursors, routeState, RetryList(req[r]),
                             req[r].attempt + 1, env)
         IN  /\ req' = [req EXCEPT ![r] = out.rq]
             /\ cursors' = out.cur
             /\ routeState' = out.rs
    /\ UNCHANGED <<dynamicRouter, tables, intervals, arrivals, arrivalCap, reloads,
                   lastReload, served500, breakers, apart>>

\* requestTimeout: the socket timeout of the request fires: a 504 unless
\* the headers are out, then req.destroy().  A piped answer ends with the
\* socket; a pending plugin, forward or backoff timer stays pending.
Deadline(r) ==
    /\ \/ req[r].pc \in {"plugin", "forward", "backoff"} /\ ~req[r].headersSent
       \/ req[r].pc = "streaming"
    /\ req' = [req EXCEPT ![r] = IF @.pc = "streaming" THEN End(@)
                                 ELSE Respond(@, 504)]
    /\ UNCHANGED <<dynamicRouter, tables, routeState, cursors, intervals, arrivals,
                   arrivalCap, reloads, lastReload, served500, breakers, apart>>

\* After req.destroy() the proxy library may abort the upstream request
\* without calling onError.
ForwardDropped(r) ==
    /\ req[r].pc = "forward"
    /\ req[r].headersSent
    /\ req' = [req EXCEPT ![r] = End(@)]
    /\ UNCHANGED <<dynamicRouter, tables, routeState, cursors, intervals, arrivals,
                   arrivalCap, reloads, lastReload, served500, breakers, apart>>

\* A forward that treats the client's going away as a transport error.
ClientDisconnects_AsError(r) ==
    /\ ~req[r].headersSent
    /\ ForwardErrors(r, "ECONNRESET")

\* The client goes away while a forward is pending: the 'close' listener set
\* in onProxyReq destroys the upstream request unless the headers are out;
\* the proxy library drops the reset of a request whose client socket is
\* gone without calling onError.
ClientDisconnects(r) ==
    /\ req[r].pc = "forward"
    /\ ~req[r].headersSent
    /\ req' = [req EXCEPT ![r] = End(@)]
    /\ UNCHANGED <<dynamicRouter, tables, routeState, cursors, intervals, arrivals,
                   arrivalCap, reloads, lastReload, served500, breakers, apart>>

Statuses == {200, 404, 500}
ErrorCodes == {"ECONNREFUSED", "ECONNABORTED", "EPROTO"}

NoReload == "none"
NoExec == [upstream |-> NoUpstream, result |-> "none"]
NoStreak == [ok |-> TRUE, n |-> 0]
NoRobin == [cands |-> <<>>, start |-> 0, index |-> Undefined, picks |-> <<>>]

\* The parts beside the gateway at start-up.
NoWatch == [reloadTimer |-> Undefined, closed |-> FALSE, events |-> 0, gap |-> 0,
            issued |-> 0, issuedAt |-> 0, total |-> 0]

ShutdownGrace == 2  \* config.timeouts.shutdown (SHUTDOWN_TIMEOUT_MS), in clock ticks
FlushDelay == 1     \* the 100 ms between the end of shutdown() and process.exit, in clock ticks

NoShutdown == [isShuttingDown |-> FALSE, pc |-> "up", handlers |-> <<>>, i |-> 0,
               triggers |-> 0, serverCloses |-> 0, watcherCloses |-> 0,
               stopAlls |-> 0, handlerRuns |-> 0, code |-> Undefined,
               elapsed |-> 0, flush |-> 0]

\* plugins/central-auth: the headers object of a request.  Node lower-cases the
\* names of incoming headers, so a client's headers sit under the lower-case
\* keys; the plugin also reads and writes the mixed-case keys.
Absent == "(absent)"
HeaderKeys == {"authorization", "Authorization", "x-user-id", "X-User-Id"}
NoHeaders == [h \in HeaderKeys |-> Absent]
NoReply == [kind |-> "none"]
NoAuth == [pc |-> "idle", enabled |-> FALSE, sent |-> NoHeaders, headers |-> NoHeaders,
           reply |-> NoReply, status |-> 0]

WindowTicks == 2    \* ticks that RATE_LIMIT_WINDOW_MS lasts
RateLimitMax == 2   \* RATE_LIMIT_MAX of the run
MaxBurst == 3       \* requests of one key within one tick

\* The rate limiter middleware: whether the limiter was created and with
\* which trust-proxy setting; per key the counter of its store (hits) and the
\* ticks left of the counter's window (resetIn, 0 = no counter), the requests
\* of the present tick (burst), the responses other than 429 of each of the
\* last WindowTicks ticks (recent), and those among them that answered a
\* request for a counted path since the counter began (served).
RateLimitKeys == {"10.0.0.1", "10.0.0.2"}
NoLimiter == [made |-> FALSE, trustProxy |-> FALSE,
              hits |-> [k \in RateLimitKeys |-> 0],
              resetIn |-> [k \in RateLimitKeys |-> 0],
              burst |-> [k \in RateLimitKeys |-> 0],
              recent |-> [k \in RateLimitKeys |-> [i \in 1..WindowTicks |-> 0]],
              served |-> [k \in RateLimitKeys |-> 0]]

MaxResponses == 5    \* responses followed through the middleware stack

\* routes/probes: no probe has been answered.
NoProbe == [readyz |-> 0, startupz |-> 0]

\* server.js: no request is in the middleware stack; http_requests_total
\* (total) and the responses completed so far (completed) are 0.
NoStack == [pc |-> "idle", status |-> 0, listeners |-> 0, timer |-> FALSE,
            total |-> 0, completed |-> 0]

MaxIssued == 3      \* probes issued per upstream in a run of SpecFlight
MaxInterval == 2    \* largest HEALTH_CHECK_INTERVAL_MS, in clock ticks
MaxTimeout == 2     \* largest HEALTH_CHECK_TIMEOUT_MS, in clock ticks

\* upstreamHealth: no probe has been issued; per upstream the number of the
\* last probe issued, the probes in flight with their age, the number of the
\* probe whose result was stored last, and the ticks since the timer fired.
NoFlightOf == [issued |-> 0, pending |-> {}, applied |-> 0, sinceFire |-> 0]
NoFlight == [checkInterval |-> 0, timeout |-> 0, up |-> [u \in Upstreams |-> NoFlightOf]]

InitFringe ==
    /\ robin = NoRobin
    /\ watch = NoWatch
    /\ down = NoShutdown
    /\ redis = "none"
    /\ auth = NoAuth
    /\ limiter = NoLimiter
    /\ probe = NoProbe
    /\ stack = NoStack
    /\ flight = NoFlight

IdleRx == [pc |-> "idle", maxRetries |-> 0, onRetry |-> "none", attempt |-> 0,
           delay |-> 0, calls |-> 0, retryableSoFar |-> TRUE, result |-> "none"]

Init ==
    /\ dynamicRouter = 0
    /\ tables = <<>>
    /\ routeState = [p \in Paths |-> 0]
    /\ cursors = <<>>
    /\ intervals = {}
    /\ req = [r \in Slots |-> IdleReq]
    /\ arrivals = 0
    /\ arrivalCap = MaxArrivals
    /\ reloads = 0
    /\ lastReload = NoReload
    /\ served500 = [u \in Upstreams |-> 0]
    /\ breakers = [u \in Upstreams |-> NoBreaker]
    /\ exec = NoExec
    /\ healthStatus = [u \in Upstreams |-> NoRecord]
    /\ thresholds = [unhealthy |-> UnhealthyThreshold, healthy |-> HealthyThreshold]
    /\ probes = [u \in Upstreams |-> 0]
    /\ streak = [u \in Upstreams |-> NoStreak]
    /\ rx = IdleRx
    /\ InitFringe

Next ==
    \/ \E d \in 1..Len(Documents) : ReloadConfig(d)
    \/ \E r \in Slots, p \in Paths : Arrive(r, p)
    \/ \E r \in Slots, passes \in BOOLEAN : PluginDone(r, passes)
    \/ \E r \in Slots, s \in Statuses : ForwardResponds(r, s)
    \/ \E r \in Slots : StreamEnds(r)
    \/ \E r \in Slots, code \in ErrorCodes : ForwardErrors(r, code)
    \/ \E r \in Slots : BackoffElapsed(r)
    \/ \E r \in Slots : Deadline(r)
    \/ \E r \in Slots : ForwardDropped(r)
    \/ \E r \in Slots : ClientDisconnects(r)

Spec == Init /\ [][Next]_vars

\* ------------------------------------------------ properties of Spec
InFlight(r) == req[r].pc \in {"plugin", "forward", "backoff", "streaming"}

\* C1: a request that is in flight while a rebuilt routing table is published
\* keeps using the table it entered with: the plugin chain it runs is that
\* table's, the upstream list its attempts work on is drawn from that table's
\* route, and so is the upstream every forward goes to.
C1_InFlightKeepsItsTable ==
    \A r \in Slots :
        InFlight(r) =>
            /\ req[r].ran \in {0, req[r].table}
            /\ req[r].pc \in {"forward", "backoff"} =>
                   Range(req[r].list) \subseteq Range(RouteOf(req[r]).upstreams)
            /\ req[r].pc = "forward" =>
                   req[r].selected \in Range(RouteOf(req[r]).upstreams)

\* A retry forward started after another table was published, to an upstream
\* the published table's route does not have.
C1_Witness ==
    \E r \in Slots :
        /\ req[r].pc = "forward"
        /\ req[r].attempt >= 1
        /\ req[r].epoch # req[r].table
        /\ req[r].epoch = dynamicRouter
        /\ MatchRoute(dynamicRouter, req[r].path) # 0
        /\ req[r].selected \notin
               Range(tables[dynamicRouter][MatchRoute(dynamicRouter, req[r].path)].upstreams)

\* C2: the cursor a request advances belongs to the table the request
\* entered with (never a cursor made for another table, or for none).
C2_CursorOfOwnTable ==
    \A r \in Slots :
        (InFlight(r) /\ req[r].state # 0) =>
            cursors[req[r].state].owner = req[r].table

\* C3: a reloadConfig call that fails (unreadable, empty or unparsable file,
\* routes not a sequence, exception while building) leaves the published
\* table as it was, and the next client request is served by that table.
C3_FailedRebuildKeepsTable ==
    [][/\ (reloads' = reloads + 1 /\ lastReload' = "failed") =>
            (dynamicRouter' = dynamicRouter /\ tables' = tables)
       /\ (arrivals' = arrivals + 1 /\ dynamicRouter # 0) =>
            \E r \in Slots : /\ FreeSlot(r)
                              /\ req'[r].pc # "idle"
                              /\ req'[r].table = dynamicRouter]_vars

\* A request being forwarded by a published table after the last reload failed.
C3_Witness ==
    /\ lastReload = "failed"
    /\ dynamicRouter # 0
    /\ \E r \in Slots : req[r].pc = "forward" /\ req[r].table = dynamicRouter

\* C7: once a response has been written for a request (the deadline's 504
\* included), no further forward attempt is started for it.
C7_NoForwardAfterResponse ==
    [][\A r \in Slots :
          (InFlight(r) /\ req[r].headersSent) =>
              req'[r].forwards = req[r].forwards]_vars

\* C8: on a retry-enabled route with max_retries = N and one upstream whose
\* every forward fails retryably, the request ends in 502 after exactly
\* N + 1 forwards.
C8_ExactlyNPlusOneForwards ==
    \A r \in Slots :
        (/\ req[r].pc = "done"
         /\ req[r].route # 0
         /\ req[r].status = 502
         /\ req[r].clean
         /\ RouteOf(req[r]).enableRetry
         /\ Len(RouteOf(req[r]).upstreams) = 1
         /\ RouteOf(req[r]).configured # Undefined) =>
            req[r].forwards = RouteOf(req[r]).configured + 1

\* ------------------------------------------------- lib/upstreamHealth
\* What the health checker never writes.
gateway == <<gateway_core, fringe>>

\* updateHealthStatus without the reset of the opposite counter.
updateHealthStatus_NoReset(upstreamUrl, ok) ==
    LET current == healthStatus[upstreamUrl] IN
    IF ok
    THEN LET n == current.consecutiveSuccesses + 1 IN
         [current EXCEPT !.present = TRUE, !.consecutiveSuccesses = n,
                         !.healthy = IF n >= thresholds.healthy THEN TRUE ELSE @]
    ELSE LET n == current.consecutiveFailures + 1 IN
         [current EXCEPT !.present = TRUE, !.consecutiveFailures = n,
                         !.healthy = IF n >= thresholds.unhealthy THEN FALSE ELSE @]

\* updateHealthStatus with `>` where the code compares with `>=`.
updateHealthStatus_Gt(upstreamUrl, ok) ==
    LET current == healthStatus[upstreamUrl] IN
    IF ok
    THEN LET n == current.consecutiveSuccesses + 1 IN
         [current EXCEPT !.present = TRUE, !.consecutiveSuccesses = n,
                         !.consecutiveFailures = 0,
                         !.healthy = IF n > thresholds.healthy THEN TRUE ELSE @]
    ELSE LET n == current.consecutiveFailures + 1 IN
         [current EXCEPT !.present = TRUE, !.consecutiveFailures = n,
                         !.consecutiveSuccesses = 0,
                         !.healthy = IF n > thresholds.unhealthy THEN FALSE ELSE @]

\* updateHealthStatus(upstreamUrl, isHealthy), with ok for isHealthy: the
\* record it stores.  A
\* missing record counts as { healthy: true, 0, 0 }.
updateHealthStatus(upstreamUrl, ok) ==
    LET current == healthStatus[upstreamUrl] IN
    IF ok
    THEN LET n == current.consecutiveSuccesses + 1 IN
         [current EXCEPT !.present = TRUE, !.consecutiveSuccesses = n,
                         !.consecutiveFailures = 0,
                         !.healthy = IF n >= thresholds.healthy THEN TRUE ELSE @]
    ELSE LET n == current.consecutiveFailures + 1 IN
         [current EXCEPT !.present = TRUE, !.consecutiveFailures = n,
                         !.consecutiveSuccesses = 0,
                         !.healthy = IF n >= thresholds.unhealthy THEN FALSE ELSE @]

\* startMonitoring(upstreamUrl): nothing when a timer exists; otherwise an
\* immediate checkHealth and a new timer.
StartMonitoring(u) ==
    /\ IF u \in intervals
       THEN UNCHANGED <<intervals, probes>>
       ELSE /\ intervals' = intervals \cup {u}
            /\ probes' = IssueProbes(probes, {u})
    /\ UNCHANGED <<gateway, breakers, exec, healthStatus, thresholds, streak, rx>>

\* The setInterval callback of a monitored upstream: checkHealth is issued.
IntervalTick(u) ==
    /\ u \in intervals
    /\ probes[u] < MaxProbes
    /\ probes' = IssueProbes(probes, {u})
    /\ UNCHANGED <<gateway, intervals, breakers, exec, healthStatus,
                   thresholds, streak, rx>>

\* checkHealth's request settles: a status below 500 is a success, a 5xx or
\* a transport error a failure; updateHealthStatus stores the result.
CheckHealthSettles(u, isHealthyResult) ==
    /\ probes[u] > 0
    /\ (IF isHealthyResult THEN healthStatus[u].consecutiveSuccesses
                           ELSE healthStatus[u].consecutiveFailures) < MaxStreak
    /\ probes' = [probes EXCEPT ![u] = @ - 1]
    /\ healthStatus' = [healthStatus EXCEPT ![u] = updateHealthStatus(u, isHealthyResult)]
    /\ streak' = [streak EXCEPT ![u] =
                     IF @.ok = isHealthyResult THEN [@ EXCEPT !.n = @ + 1]
                     ELSE [ok |-> isHealthyResult, n |-> 1]]
    /\ UNCHANGED <<gateway, intervals, breakers, exec, thresholds, rx>>

\* stopMonitoring(upstreamUrl): timer and record go; probes in flight stay.
StopMonitoring(u) ==
    /\ IF u \in intervals
       THEN /\ intervals' = intervals \ {u}
            /\ healthStatus' = [healthStatus EXCEPT ![u] = NoRecord]
            /\ streak' = [streak EXCEPT ![u] = NoStreak]
       ELSE UNCHANGED <<intervals, healthStatus, streak>>
    /\ UNCHANGED <<gateway, breakers, exec, thresholds, probes, rx>>

\* stopAll()
StopAll ==
    /\ intervals' = {}
    /\ healthStatus' = [u \in Upstreams |-> NoRecord]
    /\ streak' = [u \in Upstreams |-> NoStreak]
    /\ UNCHANGED <<gateway, breakers, exec, thresholds, probes, rx>>

\* The checker as constructed, with the thresholds the environment sets
\* (parseIntEnv keeps each at 1 or more).
InitHealth ==
    /\ dynamicRouter = 0 /\ tables = <<>> /\ cursors = <<>> /\ intervals = {}
    /\ routeState = [p \in Paths |-> 0]
    /\ req = [r \in Slots |-> IdleReq]
    /\ arrivals = 0 /\ arrivalCap = 0 /\ reloads = 0 /\ lastReload = NoReload
    /\ served500 = [u \in Upstreams |-> 0]
    /\ breakers = [u \in Upstreams |-> NoBreaker]
    /\ exec = NoExec
    /\ healthStatus = [u \in Upstreams |-> NoRecord]
    /\ thresholds \in [unhealthy : 1..MaxThreshold, healthy : 1..MaxThreshold]
    /\ probes = [u \in Upstreams |-> 0]
    /\ streak = [u \in Upstreams |-> NoStreak]
    /\ rx = IdleRx
    /\ InitFringe

NextHealth ==
    \/ \E u \in Upstreams : StartMonitoring(u)
    \/ \E u \in Upstreams : IntervalTick(u)
    \/ \E u \in Upstreams, ok \in BOOLEAN : CheckHealthSettles(u, ok)
    \/ \E u \in Upstreams : StopMonitoring(u)
    \/ StopAll

SpecHealth == InitHealth /\ [][NextHealth]_vars

\* C5: the healthy flag of an upstream's record turns from true to false only
\* at a probe result that brings the run of consecutive failures to at least
\* the unhealthy threshold, and from false to true only at a probe result
\* that brings the run of consecutive successes to at least the healthy
\* threshold.  (A record that is missing counts as healthy, as in the code.)
C5_HealthyChangesOnlyAtThreshold ==
    [][\A u \in Upstreams :
          healthStatus'[u].present =>
            /\ (healthStatus[u].healthy /\ ~healthStatus'[u].healthy) =>
                  /\ probes'[u] = probes[u] - 1
                  /\ ~streak'[u].ok
                  /\ streak'[u].n >= thresholds.unhealthy
            /\ (~healthStatus[u].healthy /\ healthStatus'[u].healthy) =>
                  /\ probes'[u] = probes[u] - 1
                  /\ streak'[u].ok
                  /\ streak'[u].n >= thresholds.healthy]_vars

\* Under thresholds above 1: one record has turned unhealthy, another is
\* healthy with its run of successes at exactly the healthy threshold.
C5_Witness ==
    \E u \in Upstreams :
        /\ thresholds.unhealthy >= 2 /\ thresholds.healthy >= 2
        /\ healthStatus[u].present /\ healthStatus[u].healthy
        /\ streak[u].ok /\ streak[u].n = thresholds.healthy
        /\ healthStatus[u].consecutiveSuccesses = thresholds.healthy
        /\ \E v \in Upstreams \ {u} :
              healthStatus[v].present /\ ~healthStatus[v].healthy

\* C6: a health record that says healthy has fewer consecutive failures than
\* the unhealthy threshold.
C6_HealthyBelowThreshold ==
    \A u \in Upstreams :
        (healthStatus[u].present /\ healthStatus[u].healthy) =>
            healthStatus[u].consecutiveFailures < thresholds.unhealthy

\* A healthy record one failure short of the threshold.
C6_Witness ==
    \E u \in Upstreams :
        /\ healthStatus[u].present /\ healthStatus[u].healthy
        /\ healthStatus[u].consecutiveFailures > 0
        /\ healthStatus[u].consecutiveFailures = thresholds.unhealthy - 1

\* --------------------------------------------------------- lib/retry
\* What the retry engine never writes.
besidesRetry == <<gateway, intervals, breakers, exec, healthStatus,
                  thresholds, probes, streak>>

\* What fn can throw: an error whose code is retryable, one whose message
\* holds a retryable code, one that is neither, or a falsy value.
Thrown == {"code", "message", "other", "null"}

\* _isRetryable(error, retryableErrors)
isRetryableError(error) == error \in {"code", "message"}

\* _calculateNextDelay(currentDelay, factor, maxDelay), with Math.random()
\* = tenths / 10: floor(next + next * 0.2 * (random * 2 - 1)).
calculateNextDelay(currentDelay, factor, maxDelay, tenths) ==
    LET scaled == currentDelay * factor
        nextDelay == IF scaled < maxDelay THEN scaled ELSE maxDelay
    IN  (nextDelay * (40 + 2 * tenths)) \div 50

RandomTenths == {0, 5, 9}

\* A give-up test that looks at the attempt count alone.
GivesUp_CountOnly(retryable, attempt, maxRetries) == attempt >= maxRetries

\* execute's catch block: `if (!isRetryable || attempt >= maxRetries) throw`
GivesUp(retryable, attempt, maxRetries) == ~retryable \/ attempt >= maxRetries

\* execute(fn, options) is called: the options are destructured and the
\* loop's first pass invokes fn.
RxExecute(n, cb) ==
    /\ rx.pc \in {"idle", "done"}
    /\ rx' = [IdleRx EXCEPT !.pc = "awaiting",
                            !.maxRetries = IF n = Undefined THEN DefaultMaxRetries ELSE n,
                            !.onRetry = cb, !.delay = InitialDelay, !.calls = 1]
    /\ UNCHANGED besidesRetry

\* `return await fn()` returns.
RxFnResolves ==
    /\ rx.pc = "awaiting"
    /\ rx' = [rx EXCEPT !.pc = "done", !.result = "returned"]
    /\ UNCHANGED besidesRetry

\* fn rejects with error: the catch block up to `await this.sleep(delay)`.
RxFnRejects(error) ==
    /\ rx.pc = "awaiting"
    /\ LET retryable == isRetryableError(error) IN
       IF GivesUp(retryable, rx.attempt, rx.maxRetries) \/ rx.onRetry = "throws"
       THEN rx' = [rx EXCEPT !.pc = "done", !.result = "threw"]
       ELSE rx' = [rx EXCEPT !.pc = "sleeping",
                             !.retryableSoFar = @ /\ retryable]
    /\ UNCHANGED besidesRetry

\* The sleep is over: the next delay is computed, attempt++ and, while
\* attempt <= maxRetries, fn is invoked again; otherwise lastError is thrown.
RxSleepElapsed(tenths) ==
    /\ rx.pc = "sleeping"
    /\ LET woke == [rx EXCEPT !.attempt = @ + 1,
                              !.delay = calculateNextDelay(@, BackoffFactor, MaxDelay, tenths)]
       IN  IF woke.attempt <= woke.maxRetries
           THEN rx' = [woke EXCEPT !.pc = "awaiting", !.calls = @ + 1]
           ELSE rx' = [woke EXCEPT !.pc = "done", !.result = "threw"]
    /\ UNCHANGED besidesRetry

NextRetry ==
    \/ \E n \in (0..MaxN) \cup {Undefined}, cb \in {"none", "returns", "throws"} :
          RxExecute(n, cb)
    \/ RxFnResolves
    \/ \E error \in Thrown : RxFnRejects(error)
    \/ \E tenths \in RandomTenths : RxSleepElapsed(tenths)

SpecRetry == Init /\ [][NextRetry]_vars

\* C9: a call of execute with maxRetries = N >= 0 invokes fn at least once
\* and at most N + 1 times, and N + 1 times only if every one of the first N
\* invocations failed with a retryable error.
C9_InvocationsBounded ==
    rx.pc # "idle" =>
        /\ rx.calls >= 1
        /\ rx.calls <= rx.maxRetries + 1
        /\ (rx.calls = rx.maxRetries + 1) => rx.retryableSoFar

\* A call with N >= 2 that used up all N + 1 invocations and threw.
C9_Witness ==
    /\ rx.pc = "done"
    /\ rx.result = "threw"
    /\ rx.maxRetries >= 2
    /\ rx.calls = rx.maxRetries + 1

\* ------------------------------------------ lib/circuitBreaker: execute
\* What the breaker registry never writes.
besidesBreakers == <<gateway, intervals, healthStatus, thresholds, probes, streak, rx>>

\* getBreaker(upstreamUrl): the registered breaker, or a new closed one.
getBreaker(upstreamUrl) ==
    IF breakers[upstreamUrl].present THEN breakers[upstreamUrl]
    ELSE [NoBreaker EXCEPT !.present = TRUE]

\* breaker.fire() turns the call down, without running the action, while the
\* breaker is not closed and no trial call is due.
FireRejects(b) == b.state # "closed" /\ ~b.pendingClose

\* The breaker's handling of a failed action: the failure is counted, and the
\* breaker opens when half-open or when the error rate is above the threshold.
FailHandler(b) ==
    LET counted == EmitFailure(b) IN
    IF counted.state = "halfOpen"
       \/ counted.failures * 100 > ErrorThresholdPercentage * counted.fires
    THEN [counted EXCEPT !.state = "open", !.pendingClose = FALSE]
    ELSE counted

\* The names the library's circuit-open rejection may carry, and what
\* execute throws for each: its own "Service unavailable" error when the
\* name is CircuitOpenError, the rejection itself otherwise.
OpenErrorNames == {"CircuitOpenError", "Error"}
CircuitOpenErrors == {"ServiceUnavailable", "EOPENBREAKER"}

\* An execute that runs fn without going through breaker.fire.
Execute_Direct(u, errorName) ==
    /\ breakers[u].fires < MaxFires /\ breakers[u].inflight < MaxFires
    /\ breakers' = [breakers EXCEPT ![u] =
                       [getBreaker(u) EXCEPT !.fires = @ + 1, !.inflight = @ + 1]]
    /\ exec' = [upstream |-> u, result |-> "invoked"]
    /\ UNCHANGED besidesBreakers

\* execute(upstreamUrl, fn): getBreaker, then breaker.fire(() => fn()) up to
\* the point where fn is running or the call has been turned down.
Execute(u, errorName) ==
    /\ breakers[u].fires < MaxFires /\ breakers[u].inflight < MaxFires
    /\ LET b == [getBreaker(u) EXCEPT !.fires = @ + 1] IN
       IF FireRejects(b)
       THEN /\ breakers' = [breakers EXCEPT ![u] = b]
            /\ exec' = [upstream |-> u,
                        result |-> IF errorName = "CircuitOpenError"
                                   THEN "ServiceUnavailable" ELSE "EOPENBREAKER"]
       ELSE /\ breakers' = [breakers EXCEPT ![u] =
                               [b EXCEPT !.pendingClose = FALSE, !.inflight = @ + 1]]
            /\ exec' = [upstream |-> u, result |-> "invoked"]
    /\ UNCHANGED besidesBreakers

\* The fn of an execute call settles (or the breaker's own timeout fires).
FnSettles(u, ok) ==
    /\ breakers[u].inflight > 0
    /\ breakers' = [breakers EXCEPT ![u] =
                       [(IF ok THEN EmitSuccess(@) ELSE FailHandler(@))
                          EXCEPT !.inflight = @ - 1]]
    /\ UNCHANGED <<exec, besidesBreakers>>

\* The reset timer of an open breaker fires: half-open, one trial call due.
ResetTimeout(u) ==
    /\ isOpen(u)
    /\ breakers' = [breakers EXCEPT ![u].state = "halfOpen", ![u].pendingClose = TRUE]
    /\ UNCHANGED <<exec, besidesBreakers>>

\* The rolling window moves past everything counted so far.
WindowRolls(u) ==
    /\ breakers[u].present
    /\ breakers' = [breakers EXCEPT ![u].fires = 0, ![u].failures = 0]
    /\ UNCHANGED <<exec, besidesBreakers>>

\* recordSuccess / recordFailure called from a proxy callback.
Signal(u, error) ==
    /\ breakers[u].failures < MaxFires
    /\ breakers' = IF error.code = "" /\ error.status < 500
                   THEN recordSuccess(u) ELSE recordFailure(u, error)
    /\ UNCHANGED <<exec, besidesBreakers>>

\* resetAll(): every breaker is closed.
ResetAll ==
    /\ breakers' = [u \in Upstreams |->
                       [breakers[u] EXCEPT !.state = "closed", !.pendingClose = FALSE]]
    /\ UNCHANGED <<exec, besidesBreakers>>

Signals == {[code |-> "", status |-> 200], [code |-> "", status |-> 500],
            [code |-> "ECONNRESET", status |-> 0], [code |-> "EPROTO", status |-> 0]}

NextBreaker ==
    \/ \E u \in Upstreams, errorName \in OpenErrorNames : Execute(u, errorName)
    \/ \E u \in Upstreams, ok \in BOOLEAN : FnSettles(u, ok)
    \/ \E u \in Upstreams : ResetTimeout(u)
    \/ \E u \in Upstreams : WindowRolls(u)
    \/ \E u \in Upstreams, error \in Signals : Signal(u, error)
    \/ ResetAll

SpecBreaker == Init /\ [][NextBreaker]_vars

\* C4: when execute(u, fn) is called while u's breaker is open, the call
\* fails with the circuit-open error and fn is not run.
C4_OpenBreakerTurnsCallDown ==
    [][\A u \in Upstreams :
          (isOpen(u) /\ breakers'[u].fires = breakers[u].fires + 1) =>
              /\ exec'.upstream = u
              /\ exec'.result \in CircuitOpenErrors
              /\ breakers'[u].inflight = breakers[u].inflight]_vars

\* The last execute call was turned down by an open breaker that had opened
\* on failures of earlier calls.
C4_Witness ==
    /\ exec.result \in CircuitOpenErrors
    /\ isOpen(exec.upstream)
    /\ breakers[exec.upstream].failures >= 1
    /\ breakers[exec.upstream].inflight = 0

\* ------------------------------------- the pipeline under a failing upstream
\* The gateway serving the one-upstream document to eleven client requests.
InitTrip ==
    /\ dynamicRouter = 0 /\ tables = <<>> /\ cursors = <<>> /\ intervals = {}
    /\ routeState = [p \in Paths |-> 0]
    /\ req = [r \in Slots |-> IdleReq]
    /\ arrivals = 0 /\ arrivalCap = 10 + 1 /\ reloads = 0 /\ lastReload = NoReload
    /\ served500 = [u \in Upstreams |-> 0]
    /\ breakers = [u \in Upstreams |-> NoBreaker]
    /\ exec = NoExec
    /\ healthStatus = [u \in Upstreams |-> NoRecord]
    /\ thresholds = [unhealthy |-> UnhealthyThreshold, healthy |-> HealthyThreshold]
    /\ probes = [u \in Upstreams |-> 0]
    /\ streak = [u \in Upstreams |-> NoStreak]
    /\ rx = IdleRx
    /\ InitFringe

NextTrip ==
    \/ ReloadConfig(1)
    \/ \E r \in Slots, p \in Paths : Arrive(r, p)
    \/ \E r \in Slots, s \in Statuses : ForwardResponds(r, s)
    \/ \E r \in Slots : StreamEnds(r)
    \/ \E r \in Slots, code \in ErrorCodes : ForwardErrors(r, code)
    \/ \E r \in Slots : BackoffElapsed(r)
    \/ \E r \in Slots : Deadline(r)
    \/ \E r \in Slots : ForwardDropped(r)

SpecTrip == InitTrip /\ [][NextTrip]_vars

\* C10: once the only upstream of a route has answered 500 to 10 consecutive
\* proxied client requests, its breaker is open (so the next client request
\* finds it open).
C10_BreakerOpenAfterTen ==
    \A u \in Upstreams : served500[u] >= 10 => isOpen(u)

\* ------------------------------ the pipeline beside a used breaker registry
\* The breakers the registry can hold when a request arrives: none, closed,
\* open, or half-open with its trial call due (SpecBreaker reaches each, with
\* the window rolled past its counts).
BreakerShapes ==
    {NoBreaker,
     [NoBreaker EXCEPT !.present = TRUE],
     [NoBreaker EXCEPT !.present = TRUE, !.state = "open"],
     [NoBreaker EXCEPT !.present = TRUE, !.state = "halfOpen", !.pendingClose = TRUE]}

InitGuard ==
    /\ dynamicRouter = 0 /\ tables = <<>> /\ cursors = <<>> /\ intervals = {}
    /\ routeState = [p \in Paths |-> 0]
    /\ req = [r \in Slots |-> IdleReq]
    /\ arrivals = 0 /\ arrivalCap = MaxArrivals /\ reloads = 0 /\ lastReload = NoReload
    /\ served500 = [u \in Upstreams |-> 0]
    /\ breakers \in [Upstreams -> BreakerShapes]
    /\ exec = NoExec
    /\ healthStatus = [u \in Upstreams |-> NoRecord]
    /\ thresholds = [unhealthy |-> UnhealthyThreshold, healthy |-> HealthyThreshold]
    /\ probes = [u \in Upstreams |-> 0]
    /\ streak = [u \in Upstreams |-> NoStreak]
    /\ rx = IdleRx
    /\ InitFringe

\* The two-upstream document served while breakers are in every shape.
NextGuard ==
    \/ ReloadConfig(3)
    \/ \E r \in Slots, p \in Paths : Arrive(r, p)
    \/ \E r \in Slots, s \in Statuses : ForwardResponds(r, s)
    \/ \E r \in Slots : StreamEnds(r)
    \/ \E r \in Slots, code \in ErrorCodes : ForwardErrors(r, code)
    \/ \E r \in Slots : BackoffElapsed(r)
    \/ \E r \in Slots : Deadline(r)
    \/ \E r \in Slots : ForwardDropped(r)
    \/ \E r \in Slots : ClientDisconnects(r)
    \/ \E u \in Upstreams : ResetTimeout(u)

SpecGuard == InitGuard /\ [][NextGuard]_vars

\* The proxy middleware of a matched route is entered by request r in this step.
EntersProxy(r) ==
    /\ (\E p \in Paths : Arrive(r, p)) \/ (PluginDone(r, TRUE) /\ ~req[r].headersSent)
    /\ req'[r].route # 0
    /\ req'[r].pc # "plugin"

\* C11: a request that enters the proxy while every upstream of its route
\* has an open breaker is answered 503 and nothing is forwarded for it.
C11_AllOpenMeans503 ==
    [][\A r \in Slots :
          (/\ EntersProxy(r)
           /\ \A u \in Range(tables[req'[r].table][req'[r].route].upstreams) :
                 breakers[u].present /\ breakers[u].state = "open") =>
              /\ req'[r].pc = "done"
              /\ req'[r].status = 503
              /\ req'[r].forwards = 0]_vars

\* A request of the two-upstream route answered 503 without a forward while
\* both breakers are open.
C11_Witness ==
    \E r \in Slots :
        /\ req[r].pc = "done" /\ req[r].route # 0
        /\ req[r].status = 503 /\ req[r].forwards = 0
        /\ Len(RouteOf(req[r]).upstreams) = 2
        /\ \A u \in Range(RouteOf(req[r]).upstreams) :
              breakers[u].present /\ breakers[u].state = "open"

\* C12: every forward that is started goes to an upstream whose breaker is
\* not open at that moment, and a request entering the proxy while some
\* upstream of its route has a breaker that is not open is not turned down
\* with 503.
C12_ForwardAvoidsOpenBreaker ==
    [][\A r \in Slots :
          /\ (req[r].pc # "forward" /\ req'[r].pc = "forward") =>
                ~(breakers[req'[r].selected].present
                  /\ breakers[req'[r].selected].state = "open")
          /\ (/\ EntersProxy(r)
              /\ \E u \in Range(tables[req'[r].table][req'[r].route].upstreams) :
                    ~(breakers[u].present /\ breakers[u].state = "open")) =>
                ~(req'[r].pc = "done" /\ req'[r].status = 503)]_vars

\* A first forward that went to the second upstream of the list because the
\* first one's breaker is open.
C12_Witness ==
    \E r \in Slots :
        /\ req[r].pc = "forward" /\ req[r].attempt = 0
        /\ Len(req[r].list) = 2
        /\ req[r].selected = req[r].list[2]
        /\ breakers[req[r].list[1]].present /\ breakers[req[r].list[1]].state = "open"
        /\ cursors[req[r].state].index = 0

AwareDocuments == {1, 3}

\* Start-up with the unhealthy threshold the environment sets
\* (UNHEALTHY_THRESHOLD, kept at 1 or more by parseIntEnv).
InitAware ==
    /\ dynamicRouter = 0 /\ tables = <<>> /\ cursors = <<>> /\ intervals = {}
    /\ routeState = [p \in Paths |-> 0]
    /\ req = [r \in Slots |-> IdleReq]
    /\ arrivals = 0 /\ arrivalCap = MaxArrivals /\ reloads = 0 /\ lastReload = NoReload
    /\ served500 = [u \in Upstreams |-> 0]
    /\ breakers = [u \in Upstreams |-> NoBreaker]
    /\ exec = NoExec
    /\ healthStatus = [u \in Upstreams |-> NoRecord]
    /\ thresholds \in [unhealthy : 1..MaxThreshold, healthy : {HealthyThreshold}]
    /\ probes = [u \in Upstreams |-> 0]
    /\ streak = [u \in Upstreams |-> NoStreak]
    /\ rx = IdleRx
    /\ InitFringe

\* reloadConfig, the request pipeline and the answers to the probes that
\* startMonitoring issues; the requests of a run are served before the
\* probe timer's first tick.
NextAware ==
    \/ \E d \in AwareDocuments : ReloadConfig(d)
    \/ \E r \in Slots, p \in Paths : Arrive(r, p)
    \/ \E r \in Slots, s \in Statuses : ForwardResponds(r, s)
    \/ \E r \in Slots : StreamEnds(r)
    \/ \E r \in Slots, code \in ErrorCodes : ForwardErrors(r, code)
    \/ \E r \in Slots : BackoffElapsed(r)
    \/ \E r \in Slots : Deadline(r)
    \/ \E r \in Slots : ForwardDropped(r)
    \/ \E r \in Slots : ClientDisconnects(r)
    \/ \E u \in Upstreams, ok \in BOOLEAN : CheckHealthSettles(u, ok)

SpecAware == InitAware /\ [][NextAware]_vars

\* An upstream is selected for request r in this step: by the first
\* tryProxy of the request or by the one a backoff timer runs.
Selects(r) ==
    /\ (\E p \in Paths : Arrive(r, p)) \/ BackoffElapsed(r)
    /\ req'[r].pc \in {"forward", "backoff"}

\* C20: under health_aware, when some upstream of the list selectUpstream is
\* given is marked healthy, the selected upstream is marked healthy; an
\* upstream marked unhealthy is selected only when none is healthy.
C20_HealthAwareSelectsHealthy ==
    [][\A r \in Slots :
          (/\ Selects(r)
           /\ tables[req'[r].table][req'[r].route].strategy = "health_aware"
           /\ \E u \in Range(req'[r].list) : isHealthy(u)) =>
              isHealthy(req'[r].selected)]_vars

\* A second request of the two-upstream route forwarded to the first
\* upstream while the second is marked unhealthy, where the cursor alone
\* would have chosen the second.
C20_Witness ==
    \E r \in Slots :
        /\ req[r].pc = "forward" /\ req[r].attempt = 0
        /\ Len(req[r].list) = 2
        /\ req[r].selected = req[r].list[1]
        /\ isHealthy(req[r].list[1])
        /\ ~isHealthy(req[r].list[2])
        /\ cursors[req[r].state].index = 0
        /\ arrivals = 2

\* C13: a retry that follows a failed forward of a route with two or more
\* upstreams is not sent to the upstream whose forward just failed.
C13_RetryAvoidsFailedUpstream ==
    [][\A r \in Slots :
          (/\ BackoffElapsed(r)
           /\ req[r].forwards = req[r].attempt + 1
           /\ Len(req[r].list) > 1
           /\ req'[r].pc = "forward") =>
              req'[r].selected # req[r].selected]_vars

\* ------------------------------- reloads beside the running health checker
NextMonitor ==
    \/ \E d \in AwareDocuments : ReloadConfig(d)
    \/ \E u \in Upstreams : IntervalTick(u)
    \/ \E u \in Upstreams, ok \in BOOLEAN : CheckHealthSettles(u, ok)

SpecMonitor == Init /\ [][NextMonitor]_vars

\* The upstreams of the routes of router t.
UpstreamsOfTable(t) == UNION {Range(t[k].upstreams) : k \in 1..Len(t)}

\* C14: while the published table has no route to upstream u, u has no probe
\* timer and no health record, and no probe is issued to it.
C14_RemovedUpstreamForgotten ==
    [][\A u \in Upstreams :
          (/\ dynamicRouter' # 0
           /\ u \notin UpstreamsOfTable(tables'[dynamicRouter'])) =>
              /\ u \notin intervals'
              /\ ~healthStatus'[u].present
              /\ probes'[u] <= probes[u]]_vars

\* C15: when monitoring of an upstream starts (again), its health state is
\* the initial one: healthy, no consecutive failures, no consecutive successes.
C15_RestartIsFresh ==
    [][\A u \in Upstreams :
          (u \notin intervals /\ u \in intervals') =>
              /\ healthStatus'[u].healthy
              /\ healthStatus'[u].consecutiveFailures = 0
              /\ healthStatus'[u].consecutiveSuccesses = 0]_vars

\* ------------------------------------------------ rebuilds under Spec
\* The value the cursor of the route mounted on path p has in cursor map rs
\* over cursor heap cur; a route without an entry starts from { index: 0 }.
CursorIndex(rs, cur, p) == IF rs[p] = 0 THEN 0 ELSE cur[rs[p]].index

\* C16: a reload that publishes a table equal to the published one resets no
\* breaker, starts or stops no probe timer, issues no probe, changes no
\* health record and leaves every route's cursor at its value.
C16_IdenticalRebuildIsNoOp ==
    [][(/\ reloads' = reloads + 1
        /\ lastReload' = "published"
        /\ dynamicRouter # 0
        /\ tables'[dynamicRouter'] = tables[dynamicRouter]) =>
           /\ breakers' = breakers
           /\ intervals' = intervals
           /\ probes' = probes
           /\ healthStatus' = healthStatus
           /\ \A p \in Paths :
                 CursorIndex(routeState', cursors', p) =
                 CursorIndex(routeState, cursors, p)]_vars

\* The entries of a document's routes that buildRouter mounts: a path that
\* is a non-empty string and at least one upstream.
ValidRoutes(doc) ==
    {i \in 1..Len(doc.routes) :
        /\ doc.routes[i].kind = "route"
        /\ isValidRoute(doc.routes[i])
        /\ Len(parseUpstreams(doc.routes[i].upstream)) > 0}

\* C17: a reload of a document that reads and parses but has no valid route
\* (an empty routes array, or every entry rejected by the build) fails and
\* the published table stays.
C17_NoValidRouteKeepsTable ==
    [][\A d \in 1..Len(Documents) :
          (/\ ReloadConfig(d)
           /\ loadConfigFile(Documents[d]) = "config"
           /\ ValidRoutes(Documents[d]) = {}) =>
              /\ lastReload' = "failed"
              /\ dynamicRouter' = dynamicRouter]_vars

\* ------------------------------------------- the retry loop on a clock
\* req[r].spent counts the clock ticks since request r entered its proxy,
\* req[r].waited those of its pending forward.  A backoff wait (100 ms to
\* 1 s) is shorter than a tick and counts as none.

\* One tick passes while the forward of request r is pending: the proxy's
\* timeout ends the forward after RouteTimeout ticks, and the socket timeout
\* of requestTimeout fires before the tick after RequestDeadline.
Tick(r) ==
    /\ req[r].pc = "forward"
    /\ req[r].waited < RouteTimeout
    /\ req[r].headersSent \/ req[r].spent < RequestDeadline
    /\ req' = [req EXCEPT ![r].waited = @ + 1, ![r].spent = @ + 1]
    /\ UNCHANGED <<dynamicRouter, tables, routeState, cursors, intervals, arrivals,
                   arrivalCap, reloads, lastReload, served500, breakers, apart>>

\* requestTimeout's callback at its time (or while an answer is piped).
DeadlineDue(r) ==
    /\ req[r].pc = "streaming" \/ req[r].spent = RequestDeadline
    /\ Deadline(r)

NextClock ==
    \/ \E d \in AwareDocuments : ReloadConfig(d)
    \/ \E r \in Slots, p \in Paths : Arrive(r, p)
    \/ \E r \in Slots, s \in Statuses : ForwardResponds(r, s)
    \/ \E r \in Slots : StreamEnds(r)
    \/ \E r \in Slots, code \in ErrorCodes : ForwardErrors(r, code)
    \/ \E r \in Slots : BackoffElapsed(r)
    \/ \E r \in Slots : DeadlineDue(r)
    \/ \E r \in Slots : ForwardDropped(r)
    \/ \E r \in Slots : ClientDisconnects(r)
    \/ \E r \in Slots : Tick(r)

SpecClock == Init /\ [][NextClock]_vars

\* C19: the time a request spends in the forwards and backoff waits of its
\* retry loop never exceeds the route's timeout.
C19_LoopWithinRouteTimeout ==
    \A r \in Slots : req[r].spent <= RouteTimeout

\* ------------------------------------------- selectUpstream, round robin
MaxPicks == 6       \* selections followed on one cursor
MaxCursor == 3      \* largest value a cursor starts with

RobinPool == {"u1", "u2", "u3"}
RobinCallers == {1, 2}

\* The lists of distinct upstreams a route can name.
CandidateLists ==
    {c \in UNION {[1..n -> RobinPool] : n \in 1..Cardinality(RobinPool)} :
        \A i, j \in DOMAIN c : i # j => c[i] # c[j]}

\* A route's upstream list and the cursor object { index } its requests
\* share; the index is absent (a fresh {}) or a number.
InitRobin ==
    /\ dynamicRouter = 0 /\ tables = <<>> /\ cursors = <<>> /\ intervals = {}
    /\ routeState = [p \in Paths |-> 0]
    /\ req = [r \in Slots |-> IdleReq]
    /\ arrivals = 0 /\ arrivalCap = 0 /\ reloads = 0 /\ lastReload = NoReload
    /\ served500 = [u \in Upstreams |-> 0]
    /\ breakers = [u \in Upstreams |-> NoBreaker]
    /\ exec = NoExec
    /\ healthStatus = [u \in Upstreams |-> NoRecord]
    /\ thresholds = [unhealthy |-> UnhealthyThreshold, healthy |-> HealthyThreshold]
    /\ probes = [u \in Upstreams |-> 0]
    /\ streak = [u \in Upstreams |-> NoStreak]
    /\ rx = IdleRx
    /\ watch = NoWatch /\ down = NoShutdown /\ redis = "none"
    /\ auth = NoAuth /\ limiter = NoLimiter
    /\ probe = NoProbe /\ stack = NoStack /\ flight = NoFlight
    /\ \E cands \in CandidateLists, c \in {Undefined} \cup 0..MaxCursor :
          robin = [cands |-> cands, start |-> IF c = Undefined THEN 0 ELSE c,
                   index |-> c, picks |-> <<>>]

\* Request task r calls selectUpstream(cands, 'round_robin', state) on the
\* shared cursor: `if (!state.index) state.index = 0`, then the selection
\* and the increment, in one synchronous run.
RobinSelect(r) ==
    /\ Len(robin.picks) < MaxPicks
    /\ LET index == IF robin.index = Undefined THEN 0 ELSE robin.index
           sel == selectUpstream(robin.cands, "round_robin", index, 0)
       IN  robin' = [robin EXCEPT !.index = sel.index,
                                  !.picks = Append(@, [by |-> r, u |-> sel.selected])]
    /\ UNCHANGED <<dynamicRouter, tables, routeState, cursors, intervals, req,
                   arrivals, arrivalCap, reloads, lastReload, served500, breakers,
                   exec, healthStatus, thresholds, probes, streak, rx, watch,
                   down, redis, auth, limiter, probe, stack, flight>>

NextRobin == \E r \in RobinCallers : RobinSelect(r)

SpecRobin == InitRobin /\ [][NextRobin]_vars

\* C21: the k-th selection (k = 0, 1, ...) on a cursor that started at c
\* over n candidates is cands[(c + k) mod n], whoever asks, and any n
\* selections in a row take every candidate exactly once.
C21_RoundRobinVisitsAll ==
    LET n == Len(robin.cands) IN
    /\ \A k \in 1..Len(robin.picks) :
          robin.picks[k].u = robin.cands[((robin.start + k - 1) % n) + 1]
    /\ \A k \in 1..(Len(robin.picks) - n + 1) :
          {robin.picks[j].u : j \in k..(k + n - 1)} = Range(robin.cands)

\* Three candidates, a cursor that did not start at 0, and a full round of
\* selections in which both request tasks took turns.
C21_Witness ==
    /\ Len(robin.cands) = 3
    /\ robin.start = 2
    /\ Len(robin.picks) >= 4
    /\ robin.picks[1].by = 1 /\ robin.picks[2].by = 2 /\ robin.picks[3].by = 1

\* ------------------------------------------------------- lib/watcher
\* Time is counted in ticks of 250 ms.  watch.reloadTimer is the number of
\* ticks until the debounce timer is due (Undefined: no timer); watch.gap
\* counts the ticks since the last file-change event, up to DebounceTicks.
\* A sequence of events is one in which each event comes less than
\* DebounceTicks after the one before; watch.events counts its events,
\* watch.issued the rebuild requests made since it began, and
\* watch.issuedAt the gap at which the last one was made.
DebounceTicks == 2  \* config.watcher.debounceMs = 500 ms
MaxEvents == 4      \* file-change events of a run

\* A change handler that leaves a pending timer alone.
FileChange_KeepTimer ==
    /\ watch.total < MaxEvents
    /\ ~watch.closed
    /\ watch.reloadTimer # 0
    /\ LET fresh == watch.events = 0 \/ watch.gap >= DebounceTicks IN
       watch' = [watch EXCEPT
                   !.reloadTimer = IF @ = Undefined THEN DebounceTicks ELSE @,
                   !.events = IF fresh THEN 1 ELSE @ + 1,
                   !.issued = IF fresh THEN 0 ELSE @,
                   !.gap = 0,
                   !.total = @ + 1]
    /\ UNCHANGED <<gateway_core, intervals, breakers, apart_core, robin, down, redis, auth, limiter, probe, stack, flight>>

\* watcher.on('change'): clearTimeout(reloadTimer), then a new timer of
\* debounceMs.  A timer that is due runs before a later event is handled.
FileChange ==
    /\ watch.total < MaxEvents
    /\ ~watch.closed
    /\ watch.reloadTimer # 0
    /\ LET fresh == watch.events = 0 \/ watch.gap >= DebounceTicks IN
       watch' = [watch EXCEPT
                   !.reloadTimer = DebounceTicks,
                   !.events = IF fresh THEN 1 ELSE @ + 1,
                   !.issued = IF fresh THEN 0 ELSE @,
                   !.gap = 0,
                   !.total = @ + 1]
    /\ UNCHANGED <<gateway_core, intervals, breakers, apart_core, robin, down, redis, auth, limiter, probe, stack, flight>>

\* A tick passes; a timer that is due fires first.
WatchTick ==
    /\ watch.reloadTimer # 0
    /\ watch.reloadTimer # Undefined \/ (watch.events > 0 /\ watch.gap < DebounceTicks)
    /\ watch' = [watch EXCEPT
                   !.reloadTimer = IF @ = Undefined THEN @ ELSE @ - 1,
                   !.gap = IF @ < DebounceTicks THEN @ + 1 ELSE @]
    /\ UNCHANGED <<gateway_core, intervals, breakers, apart_core, robin, down, redis, auth, limiter, probe, stack, flight>>

\* The debounce timer's callback: clearPluginCache(), onReload() which is
\* reloadConfig, reloadTimer = null.
DebounceFires(d) ==
    /\ watch.reloadTimer = 0
    /\ reloadConfig(d)
    /\ watch' = [watch EXCEPT !.reloadTimer = Undefined, !.issued = @ + 1,
                              !.issuedAt = watch.gap]
    /\ UNCHANGED <<robin, down, redis, auth, limiter, probe, stack, flight>>

NextWatch ==
    \/ FileChange
    \/ WatchTick
    \/ \E d \in 1..Len(Documents) : DebounceFires(d)

SpecWatch == Init /\ [][NextWatch]_vars

\* C22: while the events of a sequence keep coming less than 500 ms apart
\* no rebuild is requested, and once 500 ms have passed since its last event
\* exactly one has been, at 500 ms after that event.
C22_OneRebuildPerSequence ==
    /\ (watch.events > 0 /\ watch.gap < DebounceTicks) => watch.issued = 0
    /\ (watch.events > 0 /\ watch.gap >= DebounceTicks /\ watch.reloadTimer # 0) =>
           (watch.issued = 1 /\ watch.issuedAt = DebounceTicks)

\* A sequence of three events, each one tick after the one before, that has
\* led to its one rebuild.
C22_Witness ==
    /\ watch.events = 3
    /\ watch.issued = 1
    /\ reloads = 1
    /\ watch.reloadTimer = Undefined

\* ------------------------------------------------------ lib/shutdown
MaxTriggers == 3    \* shutdown triggers of a run

Triggers == {"SIGTERM", "SIGINT", "UNCAUGHT_EXCEPTION", "UNHANDLED_REJECTION"}

\* The handlers registerShutdownHandler was given before the server
\* started: none (server.js registers none), or the rate limiter's shutdown.
HandlerLists == {<<>>, <<"rateLimiter.shutdown">>}

\* The process has not exited.
Alive == down.pc # "exited"

\* Start-up has run: the initial reloadConfig, then the watcher and the
\* signal handlers are set up.
Started == Alive /\ reloads >= 1

InitShutdown ==
    /\ dynamicRouter = 0 /\ tables = <<>> /\ cursors = <<>> /\ intervals = {}
    /\ routeState = [p \in Paths |-> 0]
    /\ req = [r \in Slots |-> IdleReq]
    /\ arrivals = 0 /\ arrivalCap = 0 /\ reloads = 0 /\ lastReload = NoReload
    /\ served500 = [u \in Upstreams |-> 0]
    /\ breakers = [u \in Upstreams |-> NoBreaker]
    /\ exec = NoExec
    /\ healthStatus = [u \in Upstreams |-> NoRecord]
    /\ thresholds = [unhealthy |-> UnhealthyThreshold, healthy |-> HealthyThreshold]
    /\ probes = [u \in Upstreams |-> 0]
    /\ streak = [u \in Upstreams |-> NoStreak]
    /\ rx = IdleRx
    /\ robin = NoRobin /\ watch = NoWatch /\ redis = "none"
    /\ auth = NoAuth /\ limiter = NoLimiter
    /\ probe = NoProbe /\ stack = NoStack /\ flight = NoFlight
    /\ \E hs \in HandlerLists : down = [NoShutdown EXCEPT !.handlers = hs]

\* What the shutdown sequence leaves alone, the health checker aside.
besidesShutdown == <<gateway_core, breakers, exec, thresholds, probes, rx, robin>>

\* The initial reloadConfig() of server.js.
Startup(d) ==
    /\ reloads = 0
    /\ ReloadConfig(d)

\* initializeRedis(): with REDIS_URL set and the store reachable, the
\* client connects and stays in redisClient.
InitializeRedis ==
    /\ Started
    /\ redis = "none"
    /\ redis' = "open"
    /\ UNCHANGED <<gateway_core, intervals, breakers, apart_core, robin, watch, down,
                   auth, limiter, probe, stack, flight>>

\* shutdown(signal) up to its first await: server.close() is called.
BeginShutdown(dn) ==
    [dn EXCEPT !.isShuttingDown = TRUE, !.pc = "closingServer",
               !.serverCloses = @ + 1, !.i = 0]

\* A shutdown() without the isShuttingDown test.
ShutdownTrigger_Unguarded(signal) ==
    /\ Started
    /\ down.triggers < MaxTriggers
    /\ down' = [BeginShutdown(down) EXCEPT !.triggers = @ + 1]
    /\ UNCHANGED <<gateway_core, intervals, breakers, apart_core, robin, watch, redis, auth, limiter, probe, stack, flight>>

\* A SIGTERM or SIGINT, an uncaught exception or an unhandled rejection:
\* shutdown(signal), which returns at once when a shutdown is under way.
ShutdownTrigger(signal) ==
    /\ Started
    /\ down.triggers < MaxTriggers
    /\ down' = [(IF down.isShuttingDown THEN down ELSE BeginShutdown(down))
                   EXCEPT !.triggers = @ + 1]
    /\ UNCHANGED <<gateway_core, intervals, breakers, apart_core, robin, watch, redis, auth, limiter, probe, stack, flight>>

\* server.close's callback: with an error shutdown() goes to its catch and
\* exits with 1; otherwise watcher.close() is called.
ServerCloseDone(err) ==
    /\ down.pc = "closingServer"
    /\ IF err
       THEN /\ down' = [down EXCEPT !.pc = "exiting", !.code = 1]
            /\ UNCHANGED watch
       ELSE /\ down' = [down EXCEPT !.pc = "closingWatcher", !.watcherCloses = @ + 1]
            /\ watch' = [watch EXCEPT !.closed = TRUE]
    /\ UNCHANGED <<gateway_core, intervals, breakers, apart_core, robin, redis, auth, limiter, probe, stack, flight>>

\* The end of runCustomHandlers: the force-exit timer is cleared and
\* process.exit(0) is set for 100 ms later.
AfterHandler(dn) ==
    IF dn.i < Len(dn.handlers)
    THEN [dn EXCEPT !.pc = "handlers", !.i = @ + 1, !.handlerRuns = @ + 1]
    ELSE [dn EXCEPT !.pc = "exiting", !.code = 0]

\* watcher.close() settles: stopHealthMonitoring() runs stopAll(), then
\* runCustomHandlers() calls the first handler, if any.
WatcherCloseDone ==
    /\ down.pc = "closingWatcher"
    /\ intervals' = {}
    /\ healthStatus' = [u \in Upstreams |-> NoRecord]
    /\ streak' = [u \in Upstreams |-> NoStreak]
    /\ down' = AfterHandler([down EXCEPT !.stopAlls = @ + 1])
    /\ UNCHANGED <<besidesShutdown, watch, redis, auth, limiter, probe, stack, flight>>

\* The handler that runs settles.  The rate limiter's shutdown awaits
\* redisClient.quit() when there is a client; ok tells whether quit worked.
HandlerSettles(ok) ==
    /\ down.pc = "handlers"
    /\ redis' = IF down.handlers[down.i] = "rateLimiter.shutdown" /\ redis = "open" /\ ok
                THEN "closed" ELSE redis
    /\ down' = AfterHandler(down)
    /\ UNCHANGED <<gateway_core, intervals, breakers, apart_core, robin, watch,
                   auth, limiter, probe, stack, flight>>

\* process.exit at the end of shutdown().
Exit ==
    /\ down.pc = "exiting"
    /\ down' = [down EXCEPT !.pc = "exited"]
    /\ UNCHANGED <<gateway_core, intervals, breakers, apart_core, robin, watch, redis, auth, limiter, probe, stack, flight>>

\* A force-exit timer that the end of shutdown() does not clear.
ForceExit_NotCleared ==
    /\ down.pc \in {"closingServer", "closingWatcher", "handlers", "exiting"}
    /\ down' = [down EXCEPT !.pc = "exited", !.code = 1]
    /\ UNCHANGED <<gateway_core, intervals, breakers, apart_core, robin, watch, redis, auth, limiter, probe, stack, flight>>

\* The force-exit timer (config.timeouts.shutdown) fires before the
\* sequence is through: process.exit(1).
ForceExit ==
    /\ down.pc \in {"closingServer", "closingWatcher", "handlers"}
    /\ down' = [down EXCEPT !.pc = "exited", !.code = 1]
    /\ UNCHANGED <<gateway_core, intervals, breakers, apart_core, robin, watch, redis, auth, limiter, probe, stack, flight>>

\* Start-up, the shutdown sequence, the watcher and the probe timers; the
\* answers to the probes are not followed.
NextShutdown ==
    \/ \E d \in AwareDocuments : Startup(d)
    \/ InitializeRedis
    \/ \E signal \in Triggers : ShutdownTrigger(signal)
    \/ \E err \in BOOLEAN : ServerCloseDone(err)
    \/ WatcherCloseDone
    \/ \E ok \in BOOLEAN : HandlerSettles(ok)
    \/ Exit
    \/ ForceExit
    \/ Started /\ FileChange
    \/ Alive /\ WatchTick
    \/ \E d \in AwareDocuments : Alive /\ DebounceFires(d)
    \/ \E u \in Upstreams : Alive /\ IntervalTick(u)

SpecShutdown == InitShutdown /\ [][NextShutdown]_vars

\* C25: whatever triggers arrive and whenever, each step of the cleanup
\* sequence is carried out at most once.
C25_CleanupAtMostOnce ==
    /\ down.serverCloses <= 1
    /\ down.watcherCloses <= 1
    /\ down.stopAlls <= 1
    /\ down.handlerRuns <= Len(down.handlers)

\* Three triggers have arrived, one of them while the custom handler ran,
\* and the sequence has gone through once.
C25_Witness ==
    /\ down.triggers = 3
    /\ down.pc = "exited" /\ down.code = 0
    /\ down.serverCloses = 1 /\ down.watcherCloses = 1 /\ down.stopAlls = 1
    /\ down.handlerRuns = 1

\* C23: once shutdown has begun, no step builds or publishes a routing
\* table: reloadConfig is not run.
C23_NoRebuildDuringShutdown ==
    [][down.isShuttingDown =>
          /\ reloads' = reloads
          /\ tables' = tables
          /\ dynamicRouter' = dynamicRouter]_vars

\* C24: from stopAll() of the shutdown sequence until the process exits, no
\* upstream has a probe timer and no probe is issued.
C24_NoProbesAfterStopAll ==
    [][down'.stopAlls >= 1 =>
          /\ intervals' = {}
          /\ \A u \in Upstreams : probes'[u] <= probes[u]]_vars

String(value) ==
    IF value.t = "number" THEN ToString(value.v)
    ELSE IF value.t = "string" THEN value.v
    ELSE value.t

UserIds == {[t |-> "number", v |-> 42], [t |-> "string", v |-> "u-7"],
            [t |-> "null", v |-> 0], [t |-> "undefined", v |-> 0]}

VerifyStatuses == {[t |-> "boolean", v |-> TRUE], [t |-> "boolean", v |-> FALSE],
                   [t |-> "string", v |-> "true"], [t |-> "undefined", v |-> 0]}

True == [t |-> "boolean", v |-> TRUE]

\* What the auth service, or the network on the way to it, can answer.
AuthStatuses == {200, 204, 302, 401, 403, 500, 503}
AuthAnswers ==
    [kind : {"response"}, status : AuthStatuses, verifyStatus : VerifyStatuses,
     userId : UserIds]
    \cup [kind : {"error"}, code : {"ECONNREFUSED", "ETIMEDOUT", "ENOTFOUND", "ECONNABORTED"}]

\* authClient.post: validateStatus is `status < 500`, so axios rejects a 5xx
\* answer with an error; every other answer resolves as the response.
post(answer) ==
    IF answer.kind = "response" /\ ~(answer.status < 500)
    THEN [kind |-> "error", code |-> "ERR_BAD_RESPONSE"]
    ELSE answer

verified_StatusOnly(response) ==
    response.status >= 200 /\ response.status < 300

\* response.status >= 200 && response.status < 300 &&
\* response.data?.data?.verifyStatus === true
verified(response) ==
    /\ response.status >= 200
    /\ response.status < 300
    /\ response.verifyStatus = True

\* req.headers['authorization'] || req.headers['Authorization']
authHeader(headers) ==
    IF headers["authorization"] \notin {Absent, ""} THEN headers["authorization"]
    ELSE headers["Authorization"]

\* The header a name stands for in the request sent on: http.request sets
\* the entries of the headers object in insertion order under the lower-case
\* name, so the entry the plugin added replaces the client's.
Outgoing(headers, lower, mixed) ==
    IF headers[mixed] # Absent THEN headers[mixed] ELSE headers[lower]

\* The middleware up to its first await, for a request with the given headers.
CentralAuth(enabled, authorization, xUserId) ==
    /\ auth.pc = "idle"
    /\ LET headers == [NoHeaders EXCEPT !["authorization"] = authorization,
                                        !["x-user-id"] = xUserId]
           arrived == [auth EXCEPT !.enabled = enabled, !.sent = headers,
                                   !.headers = headers]
       IN  auth' = IF ~enabled THEN [arrived EXCEPT !.pc = "next"]
                   ELSE IF authHeader(headers) \in {Absent, ""}
                        THEN [arrived EXCEPT !.pc = "responded", !.status = 401]
                        ELSE [arrived EXCEPT !.pc = "verifying"]
    /\ UNCHANGED <<gateway_core, intervals, breakers, apart_core, robin, watch, down,
                   redis, limiter, probe, stack, flight>>

\* The verify call of the waiting request settles with the given answer.
VerifySettles(answer) ==
    /\ auth.pc = "verifying"
    /\ LET response == post(answer)
           got == [auth EXCEPT !.reply = answer]
       IN  auth' =
             IF response.kind = "error"
             THEN [got EXCEPT !.pc = "responded", !.status = 502]
             ELSE IF verified(response)
             THEN [got EXCEPT
                     !.pc = "next",
                     !.headers = [@ EXCEPT
                        !["X-User-Id"] = IF response.userId.t \notin {"undefined", "null"}
                                         THEN String(response.userId) ELSE @,
                        !["authorization"] = Absent,
                        !["Authorization"] = Absent]]
             ELSE [got EXCEPT
                     !.pc = "responded",
                     !.status = IF response.status >= 400 /\ response.status < 500
                                THEN response.status ELSE 401]
    /\ UNCHANGED <<gateway_core, intervals, breakers, apart_core, robin, watch, down,
                   redis, limiter, probe, stack, flight>>

NextAuth ==
    \/ \E enabled \in BOOLEAN, authorization \in {Absent, "", "Bearer T"},
          xUserId \in {Absent, "1"} : CentralAuth(enabled, authorization, xUserId)
    \/ \E answer \in AuthAnswers : VerifySettles(answer)

SpecAuth == Init /\ [][NextAuth]_vars

\* C28: with the plugin enabled, a request goes on to the next middleware only
\* if it carried an Authorization header and its verify call was answered 2xx
\* with verifyStatus true; every other request that the plugin has settled
\* got a 4xx or a 502 from it and did not go on.
C28_OnlyVerifiedContinue ==
    (auth.enabled /\ auth.pc \in {"next", "responded"}) =>
        /\ auth.pc = "next" <=>
              /\ auth.sent["authorization"] \notin {Absent, ""}
              /\ auth.reply.kind = "response"
              /\ auth.reply.status \in 200..299
              /\ auth.reply.verifyStatus = True
        /\ auth.pc = "responded" => auth.status \in (400..499) \cup {502}

C28_Witness ==
    /\ auth.enabled /\ auth.pc = "next"
    /\ auth.reply.kind = "response" /\ auth.reply.status = 204

\* C29: the request the plugin hands on after a successful verification has
\* no Authorization header, and its X-User-Id header is the string form of
\* the userId of the auth service's answer.
C29_HandedOnHeaders ==
    (auth.enabled /\ auth.pc = "next") =>
        /\ auth.headers["authorization"] = Absent
        /\ auth.headers["Authorization"] = Absent
        /\ Outgoing(auth.headers, "x-user-id", "X-User-Id") = String(auth.reply.userId)


\* --------------------------------------------- lib/retry: the waits
\* C30: the wait after failed attempt n (n = 0 before the first retry) lies
\* within 20% of d_n = min(initial * factor^n, max_delay).
C30_WaitWithinJitter ==
    rx.pc = "sleeping" =>
        LET grown == InitialDelay * BackoffFactor ^ rx.attempt
            d == IF grown < MaxDelay THEN grown ELSE MaxDelay
        IN  /\ 5 * rx.delay >= 4 * d
            /\ 5 * rx.delay <= 6 * d


\* ------------------------------------------- middleware/rateLimiter
SkipPaths == {"/health", "/metrics", "/livez", "/readyz", "/startupz"}
RequestPaths == {"/health", "/api/orders"}

\* What x-forwarded-for can hold: nothing, or a list of addresses.
ForwardedFor == {<<>>, <<"10.0.0.2", "10.0.0.1">>}

\* keyGenerator: the first entry of x-forwarded-for when the proxy is
\* trusted and the header is there, else req.ip.
keyGenerator(trustProxy, forwarded, ip) ==
    IF trustProxy /\ forwarded # <<>> THEN forwarded[1] ELSE ip

\* skip: (req) => skipPaths.includes(req.path)
skip(path) == path \in SkipPaths

handler_CallsNext(key) == [status |-> 200, error |-> "none"]

\* handler: res.status(429).json({ error: 'Rate Limit Exceeded', ... })
handler(key) == [status |-> 429, error |-> "Rate Limit Exceeded"]

\* The store's increment of a key: a key without a running window starts
\* one of WindowTicks with a count of 1; otherwise the count grows.
Increment(lim, key) ==
    IF lim.resetIn[key] = 0
    THEN [lim EXCEPT !.hits[key] = 1, !.resetIn[key] = WindowTicks, !.served[key] = 0]
    ELSE [lim EXCEPT !.hits[key] = @ + 1]

\* getGlobalRateLimiter's first call: createRateLimiter() with the frozen
\* configuration of the process.
CreateRateLimiter(trustProxy) ==
    /\ ~limiter.made
    /\ limiter' = [limiter EXCEPT !.made = TRUE, !.trustProxy = trustProxy]
    /\ UNCHANGED <<gateway_core, intervals, breakers, apart_core, robin, watch, down,
                   redis, auth, probe, stack, flight>>

\* A request passes the global limiter: skipped paths go on uncounted; any
\* other request is counted under its key and goes on while the count is at
\* most max, else the handler answers it.
GlobalRateLimiter(ip, forwarded, path) ==
    /\ limiter.made
    /\ LET key == keyGenerator(limiter.trustProxy, forwarded, ip)
           counted == IF skip(path) THEN limiter ELSE Increment(limiter, key)
           response == IF ~skip(path) /\ counted.hits[key] > RateLimitMax
                       THEN handler(key)
                       ELSE [status |-> 200, error |-> "none"]
           other == IF response.status # 429 THEN 1 ELSE 0
       IN  /\ limiter.burst[key] < MaxBurst
           /\ limiter' = [counted EXCEPT
                 !.burst[key] = @ + 1,
                 !.recent[key][WindowTicks] = @ + other,
                 !.served[key] = IF path \in SkipPaths THEN @ ELSE @ + other]
    /\ UNCHANGED <<gateway_core, intervals, breakers, apart_core, robin, watch, down,
                   redis, auth, probe, stack, flight>>

\* One tick of time: a window that has run WindowTicks ends, and its counter
\* goes with it.
LimiterTick ==
    /\ limiter.made
    /\ limiter' = [limiter EXCEPT
          !.burst = [k \in RateLimitKeys |-> 0],
          !.resetIn = [k \in RateLimitKeys |-> IF @[k] > 0 THEN @[k] - 1 ELSE 0],
          !.hits = [k \in RateLimitKeys |-> IF limiter.resetIn[k] <= 1 THEN 0 ELSE @[k]],
          !.served = [k \in RateLimitKeys |-> IF limiter.resetIn[k] <= 1 THEN 0 ELSE @[k]],
          !.recent = [k \in RateLimitKeys |->
                        [i \in 1..WindowTicks |-> IF i < WindowTicks THEN @[k][i + 1] ELSE 0]]]
    /\ UNCHANGED <<gateway_core, intervals, breakers, apart_core, robin, watch, down,
                   redis, auth, probe, stack, flight>>

NextLimiter ==
    \/ \E trustProxy \in BOOLEAN : CreateRateLimiter(trustProxy)
    \/ \E ip \in RateLimitKeys, forwarded \in ForwardedFor, path \in RequestPaths :
          GlobalRateLimiter(ip, forwarded, path)
    \/ LimiterTick

SpecLimiter == Init /\ [][NextLimiter]_vars

RECURSIVE SumOver(_, _)
SumOver(f, n) == IF n = 0 THEN 0 ELSE f[n] + SumOver(f, n - 1)

StatsState(b) == "unknown"

\* getStats(): one entry per breaker of the registry.
getStats == [u \in {v \in Upstreams : breakers[v].present} |->
                [state |-> StatsState(breakers[u])]]

\* getAllHealthStatus(): one entry per health record.
getAllHealthStatus == [u \in {v \in Upstreams : healthStatus[v].present} |->
                          [healthy |-> healthStatus[u].healthy]]

\* readinessProbe(() => dynamicRouter): the status code it answers with.
readinessProbe(router) ==
    LET breakerStats == getStats
        openBreakers == {u \in DOMAIN breakerStats : breakerStats[u].state = "open"}
        upstreamHealth == getAllHealthStatus
        upstreamEntries == DOMAIN upstreamHealth
        unhealthyUpstreams == {u \in upstreamEntries : ~upstreamHealth[u].healthy}
        issues == (IF router = 0 THEN {"Routes not loaded"} ELSE {})
                  \cup (IF openBreakers # {} THEN {"Circuit breakers open"} ELSE {})
                  \cup (IF upstreamEntries # {} /\ unhealthyUpstreams = upstreamEntries
                        THEN {"All upstreams unhealthy"} ELSE {})
    IN  IF issues = {} THEN 200 ELSE 503

\* GET /readyz is answered.
GetReadyz ==
    /\ probe' = [probe EXCEPT !.readyz = readinessProbe(dynamicRouter)]
    /\ UNCHANGED <<gateway_core, intervals, breakers, apart_core, robin, watch, down,
                   redis, auth, limiter, stack, flight>>

\* GET /startupz is answered.  server.js mounts /health, /livez, /readyz and
\* /metrics; any other path goes to the dynamic-routing middleware and, when
\* no route takes it, to notFoundHandler.
GetStartupz ==
    /\ \E s \in Statuses :
          probe' = [probe EXCEPT !.startupz =
                      IF dynamicRouter = 0 THEN 503
                      ELSE IF MatchRoute(dynamicRouter, "/startupz") = 0 THEN 404
                      ELSE s]
    /\ UNCHANGED <<gateway_core, intervals, breakers, apart_core, robin, watch, down,
                   redis, auth, limiter, stack, flight>>

\* The probes beside rebuilds, the health checker and a registry of breakers
\* in every shape.
NextReady ==
    \/ \E d \in {1, 3, 5} : ReloadConfig(d)
    \/ \E u \in Upstreams : IntervalTick(u)
    \/ \E u \in Upstreams, ok \in BOOLEAN : CheckHealthSettles(u, ok)
    \/ \E u \in Upstreams : ResetTimeout(u)
    \/ GetReadyz
    \/ GetStartupz

SpecReady == InitGuard /\ [][NextReady]_vars

C34_StartedAfterFirstRebuild ==
    [][GetStartupz => probe'.startupz = IF reloads >= 1 THEN 200 ELSE 503]_vars


\* ------------------------------------------- server.js: the middleware stack
\* The response of the request in the stack is completed with status s:
\* 'finish' runs the listeners that were registered on it.
Complete(st, s) ==
    [st EXCEPT !.pc = "idle", !.status = s, !.timer = FALSE, !.listeners = 0,
               !.total = @ + st.listeners, !.completed = @ + 1]

\* A request enters the stack and runs to its first wait: 1. security (the
\* body parsers turn down a body over the limit: next(err), which skips to
\* globalErrorHandler), 2. requestId, 3. globalRateLimiter (429 past the
\* limit), 4. requestTimeout (arms the timer), 5. metricsMiddleware
\* (registers the 'finish' listener), 6. requestLogger, then the endpoints.
StackRequest(tooLarge, overLimit) ==
    /\ stack.pc = "idle"
    /\ stack.completed < MaxResponses
    /\ stack' = IF tooLarge THEN Complete(stack, 413)
                ELSE IF overLimit THEN Complete(stack, 429)
                ELSE [stack EXCEPT !.pc = "handling", !.status = 0, !.timer = TRUE,
                                   !.listeners = @ + 1]
    /\ UNCHANGED <<gateway_core, intervals, breakers, apart_core, robin, watch, down,
                   redis, auth, limiter, probe, flight>>

\* An endpoint, the dynamic router or a handler behind it answers.
StackResponds(s) ==
    /\ stack.pc = "handling"
    /\ stack' = Complete(stack, s)
    /\ UNCHANGED <<gateway_core, intervals, breakers, apart_core, robin, watch, down,
                   redis, auth, limiter, probe, flight>>

\* The request timer fires before anything was sent: 504.
StackDeadline ==
    /\ stack.pc = "handling"
    /\ stack.timer
    /\ stack' = Complete(stack, 504)
    /\ UNCHANGED <<gateway_core, intervals, breakers, apart_core, robin, watch, down,
                   redis, auth, limiter, probe, flight>>

NextStack ==
    \/ \E tooLarge \in BOOLEAN, overLimit \in BOOLEAN : StackRequest(tooLarge, overLimit)
    \/ \E s \in Statuses \cup {401, 502, 503} : StackResponds(s)
    \/ StackDeadline

SpecStack == Init /\ [][NextStack]_vars

\* C33: every response the gateway completes, whichever stage wrote it, adds
\* exactly one to http_requests_total.
C33_EveryResponseCounted == stack.total = stack.completed


\* ------------------------------------------- plugins before the forward
\* C35: nothing is forwarded for a request unless every plugin that its
\* route's configuration enables has run for it and let it go on.
C35_NoForwardWithoutPlugins ==
    \A r \in Slots :
        req[r].pc = "forward" =>
            LET route == RouteOf(req[r]) IN
            /\ route.plugins = route.enabledPlugins
            /\ Len(route.enabledPlugins) > 0 => req[r].ran = req[r].table


\* ------------------------------------- central-auth: the user-id headers
\* C36: on a request that passed the enabled auth plugin, every user-id
\* header, whatever the case of its name, holds the value the auth service
\* returned for that request; what the client sent is not handed on.
C36_NoClientUserId ==
    (auth.enabled /\ auth.pc = "next") =>
        \A h \in {"x-user-id", "X-User-Id"} :
            auth.headers[h] # Absent => auth.headers[h] = String(auth.reply.userId)


\* ------------------------------------------ one response per request
\* C37: whatever the order of the request deadline, proxy errors, open
\* breakers, retry timers and upstream answers, at most one response is
\* started for a client request.
C37_AtMostOneResponse ==
    \A r \in Slots : req[r].starts <= 1

\* The deadline answered 504 while a forward was pending, and the forward
\* failed afterwards without a second response.
C37_Witness ==
    \E r \in Slots :
        /\ req[r].pc = "done"
        /\ req[r].status = 504
        /\ req[r].forwards >= 1
        /\ ~req[r].clean
        /\ req[r].starts = 1


\* ------------------------------------ upstreamHealth: probes in flight
InitFlight ==
    /\ dynamicRouter = 0 /\ tables = <<>> /\ cursors = <<>> /\ intervals = {}
    /\ routeState = [p \in Paths |-> 0]
    /\ req = [r \in Slots |-> IdleReq]
    /\ arrivals = 0 /\ arrivalCap = 0 /\ reloads = 0 /\ lastReload = NoReload
    /\ served500 = [u \in Upstreams |-> 0]
    /\ breakers = [u \in Upstreams |-> NoBreaker]
    /\ exec = NoExec
    /\ healthStatus = [u \in Upstreams |-> NoRecord]
    /\ thresholds = [unhealthy |-> UnhealthyThreshold, healthy |-> HealthyThreshold]
    /\ probes = [u \in Upstreams |-> 0]
    /\ streak = [u \in Upstreams |-> NoStreak]
    /\ rx = IdleRx
    /\ robin = NoRobin /\ watch = NoWatch /\ down = NoShutdown /\ redis = "none"
    /\ auth = NoAuth /\ limiter = NoLimiter
    /\ probe = NoProbe /\ stack = NoStack
    /\ \E i \in 1..MaxInterval, t \in 1..MaxTimeout :
          flight = [NoFlight EXCEPT !.checkInterval = i, !.timeout = t]

besidesFlight == <<gateway_core, breakers, exec, thresholds, rx, robin, watch, down,
                   redis, auth, limiter, probe, stack>>

\* this.checkHealth(upstreamUrl) is called: the request leaves as the next
\* probe of the upstream.
checkHealth(f, u) ==
    [f EXCEPT !.up[u].issued = @ + 1,
              !.up[u].pending = @ \cup {[n |-> f.up[u].issued + 1, age |-> 0]}]

\* startMonitoring(upstreamUrl) with the probes numbered.
FlightStart(u) ==
    /\ flight.up[u].issued < MaxIssued
    /\ IF u \in intervals
       THEN UNCHANGED <<intervals, probes, flight>>
       ELSE /\ intervals' = intervals \cup {u}
            /\ probes' = IssueProbes(probes, {u})
            /\ flight' = [checkHealth(flight, u) EXCEPT !.up[u].sinceFire = 0]
    /\ UNCHANGED <<besidesFlight, healthStatus, streak>>

\* The setInterval callback, checkInterval after the timer last fired.
FlightTimer(u) ==
    /\ u \in intervals
    /\ flight.up[u].sinceFire = flight.checkInterval
    /\ flight.up[u].issued < MaxIssued
    /\ probes[u] < MaxProbes
    /\ probes' = IssueProbes(probes, {u})
    /\ flight' = [checkHealth(flight, u) EXCEPT !.up[u].sinceFire = 0]
    /\ UNCHANGED <<besidesFlight, intervals, healthStatus, streak>>

\* The axios request of probe n settles and checkHealth goes on to
\* updateHealthStatus: an answer comes before the timeout, the timeout
\* itself is a rejection.
FlightSettles(u, n, ok) ==
    /\ \E pr \in flight.up[u].pending :
          /\ pr.n = n
          /\ ok => pr.age < flight.timeout
          /\ flight' = [flight EXCEPT !.up[u].pending = @ \ {pr},
                                      !.up[u].applied = n]
    /\ probes' = [probes EXCEPT ![u] = @ - 1]
    /\ healthStatus' = [healthStatus EXCEPT ![u] = updateHealthStatus(u, ok)]
    /\ streak' = [streak EXCEPT ![u] =
                     IF @.ok = ok THEN [@ EXCEPT !.n = @ + 1]
                     ELSE [ok |-> ok, n |-> 1]]
    /\ UNCHANGED <<besidesFlight, intervals>>

\* The clock advances by one tick: no probe is past its timeout, no timer
\* that can still fire is due.
FlightTick ==
    /\ \A u \in Upstreams :
          /\ \A pr \in flight.up[u].pending : pr.age < flight.timeout
          /\ (u \in intervals /\ flight.up[u].sinceFire = flight.checkInterval) =>
                (flight.up[u].issued >= MaxIssued \/ probes[u] >= MaxProbes)
    /\ \E u \in Upstreams : flight.up[u].pending # {}
    /\ flight' = [flight EXCEPT !.up = [u \in Upstreams |->
                    [@[u] EXCEPT !.pending = {[pr EXCEPT !.age = @ + 1] : pr \in @},
                                 !.sinceFire = IF u \in intervals /\ @ < flight.checkInterval
                                               THEN @ + 1 ELSE @]]]
    /\ UNCHANGED <<besidesFlight, intervals, probes, healthStatus, streak>>

NextFlight ==
    \/ \E u \in Upstreams : FlightStart(u)
    \/ \E u \in Upstreams : FlightTimer(u)
    \/ \E u \in Upstreams, n \in 1..MaxIssued, ok \in BOOLEAN : FlightSettles(u, n, ok)
    \/ FlightTick

SpecFlight == InitFlight /\ [][NextFlight]_vars

\* C38: the results of an upstream's probes reach its health record in the
\* order the probes were issued, whatever the interval and the timeout.
C38_ResultsInIssueOrder ==
    [][\A u \in Upstreams : flight'.up[u].applied >= flight.up[u].applied]_vars


\* ------------------------------------------- lib/shutdown on the clock
\* The force-exit timer fires config.timeouts.shutdown after shutdown() began.
TimedForceExit ==
    /\ down.elapsed = ShutdownGrace
    /\ ForceExit

\* setTimeout(() => process.exit(code), 100) fires.
TimedExit ==
    /\ down.flush = FlushDelay
    /\ Exit

\* The clock advances by one tick during a shutdown: no timer is due.
ShutdownTick ==
    /\ down.isShuttingDown
    /\ Alive
    /\ IF down.pc = "exiting" THEN down.flush < FlushDelay
                              ELSE down.elapsed < ShutdownGrace
    /\ down' = [down EXCEPT !.elapsed = @ + 1,
                            !.flush = IF down.pc = "exiting" THEN @ + 1 ELSE @]
    /\ UNCHANGED <<gateway_core, intervals, breakers, apart_core, robin, watch, redis,
                   auth, limiter, probe, stack, flight>>

NextExit ==
    \/ \E d \in AwareDocuments : Startup(d)
    \/ InitializeRedis
    \/ \E signal \in Triggers : ShutdownTrigger(signal)
    \/ \E err \in BOOLEAN : ServerCloseDone(err)
    \/ WatcherCloseDone
    \/ \E ok \in BOOLEAN : HandlerSettles(ok)
    \/ TimedExit
    \/ TimedForceExit
    \/ ShutdownTick

\* Time passes and due timers fire; server.close, watcher.close and the
\* handlers may never settle.
SpecExit ==
    /\ InitShutdown
    /\ [][NextExit]_vars
    /\ WF_vars(ShutdownTick)
    /\ WF_vars(TimedExit)
    /\ WF_vars(TimedForceExit)

\* C39: a shutdown that has begun ends in an exit, at most the grace window
\* plus the flush delay later: with code 0 when every cleanup step
\* completed, with code 1 when the grace window elapsed first or
\* server.close reported an error.
C39_ExitsInTime ==
    /\ down.isShuttingDown ~> down.pc = "exited"
    /\ [](down.pc = "exited" =>
            /\ down.elapsed <= ShutdownGrace + FlushDelay
            /\ down.code \in {0, 1})
    /\ [][down'.code # down.code =>
            /\ down.code = Undefined
            /\ IF down'.pc = "exited"
               THEN down'.code = 1 /\ down.elapsed = ShutdownGrace
               ELSE IF down.pc = "closingServer"
               THEN down'.code = 1
               ELSE /\ down'.code = 0
                    /\ down'.serverCloses = 1 /\ down'.watcherCloses = 1
                    /\ down'.stopAlls = 1
                    /\ down'.handlerRuns = Len(down'.handlers)]_vars

\* A clean shutdown that took the whole grace window and the flush delay.
C39_Witness ==
    /\ down.pc = "exited"
    /\ down.code = 0
    /\ down.elapsed = ShutdownGrace + FlushDelay


\* ------------------------------------------- the cursor store's frame
\* C40: once a rebuild has built a table, routeState holds one cursor per
\* route of that table, made by that build; and a step of a request that
\* started on an earlier table leaves routeState and the cursors it holds
\* as they were.
C40_StoreOfNewestTable ==
    [][/\ tables' # tables =>
            \A p \in Paths :
               /\ routeState'[p] # 0 <=> MatchRoute(Len(tables), p)' # 0
               /\ routeState'[p] # 0 => cursors'[routeState'[p]].owner = Len(tables')
       /\ \A r \in Slots :
            (InFlight(r) /\ req[r].table < Len(tables) /\ req'[r] # req[r]) =>
               /\ routeState' = routeState
               /\ \A p \in Paths :
                     routeState[p] # 0 => cursors'[routeState[p]] = cursors[routeState[p]]]_vars

====
